---- MODULE Spec2Model ----
(***************************************************************************)
(* dbtestify: the seed engine (seed.go), the dialect adapters and their    *)
(* constructor (dbconnector.go), the entry surfaces that call Seed         *)
(* (cmd/dbtestify, httpapi, assertdb), the assert engine (assert.go) and   *)
(* the dataset parser and normalizer (dataset.go).                         *)
(***************************************************************************)
EXTENDS Integers, Sequences, FiniteSets, TLC

VARIABLES
    pc,          \* position of the Seed call: idle, truncate, table, batch, commit, done
    surface,     \* which caller entered Seed: lib, helper, http, cli
    dialect,     \* adapter returned by NewDBConnector: postgres, mysql, sqlite
    db,          \* committed content of the database: table -> set of rows
    dbBefore,    \* content of the database when Seed was called
    txdb,        \* content as seen inside the open transaction
    autocommit,  \* the MySQL session left the transaction (implicit commit)
    data,        \* the *DataSet handed to Seed, as it is now
    parsed,      \* that DataSet as ParseYAML returned it
    opt,         \* the SeedOpt handed to Seed
    ops,         \* the local map ops of Seed
    pending,     \* keys of ops not yet visited by the truncate loop
    ti,          \* index into data.Tables of the data loop
    bi,          \* loop variable i of the batch loop (0-based row offset)
    pKeys,       \* primary keys looked up for the current table
    stmts,       \* adapter calls made so far, in order
    calls,       \* opt.Callback invocations so far, in order
    err,         \* what Seed returned: "" while running, "nil", "error", "panic"
    committed,   \* tx.Commit succeeded
    faulted,     \* the driver failed a call by itself (lost connection, cancelled context)
    expected,    \* compareTable argument: expected rows
    actual,      \* compareTable argument: actual rows
    strategy,    \* compareTable argument: match strategy
    result,      \* value returned by compareTable, or NoResult before the call
    eRow,        \* compareRow argument: expected row
    aRow,        \* compareRow argument: actual row
    rowDiff,     \* value returned by compareRow, Status "" before the call
    rowTags,     \* filter argument: the tags of a row
    includeSet,  \* filter argument: include tags
    excludeSet,  \* filter argument: exclude tags
    accepted,    \* value returned by filter, "" before the call
    rawTable,    \* receiver of SortAndFilter: a Table
    primaryKeys, \* SortAndFilter argument: primary-key column names
    tagFilter,   \* SortAndFilter arguments includeTags and excludeTags, as a pair
    normalized,  \* what SortAndFilter returned, state "" before the call
    document,    \* top-level keys of a YAML document, in document order
    parses,      \* the Tables name lists of the DataSets ParseYAML returned so far
    apc,         \* position of the Assert call: idle, loop, panicked
    assertIn,    \* the arguments of Assert and the content of the database
    assertRun,   \* the locals of the running Assert call
    returns,     \* what the Assert calls returned so far, in order
    cpc,         \* position of the goroutine started by NewDBConnector
    conn,        \* the connector, its handle and the context given to NewDBConnector
    keyA,        \* comparePkey argument: the first row
    keyB,        \* comparePkey argument: the second row
    cmpOut,      \* what the comparators returned for (keyA, keyB) and (keyB, keyA)
    seedIn,      \* a dataset table, an operation, a database and two batch sizes
    seedOut      \* what Seed left with the one batch size and with the other

vars == <<pc, surface, dialect, db, dbBefore, txdb, autocommit, data, opt, ops,
          pending, ti, bi, pKeys, stmts, calls, err, committed, faulted, parsed,
          expected, actual, strategy, result,
          eRow, aRow, rowDiff, rowTags, includeSet, excludeSet, accepted,
          rawTable, primaryKeys, tagFilter, normalized, document, parses,
          apc, assertIn, assertRun, returns, cpc, conn, keyA, keyB, cmpOut,
          seedIn, seedOut>>

seedVars == <<pc, surface, dialect, db, dbBefore, txdb, autocommit, data, opt, ops,
              pending, ti, bi, pKeys, stmts, calls, err, committed, faulted, parsed>>

cmpVars == <<expected, actual, strategy, result>>

rowVars == <<eRow, aRow, rowDiff>>

filterVars == <<rowTags, includeSet, excludeSet, accepted>>

normVars == <<rawTable, primaryKeys, tagFilter, normalized>>

parseVars == <<document, parses>>

assertVars == <<apc, assertIn, assertRun, returns>>

connVars == <<cpc, conn>>

pkeyVars == <<keyA, keyB, cmpOut>>

pairVars == <<seedIn, seedOut>>

\* the variables a specification leaves alone, by the part it is about
besidesSeed ==
    <<cmpVars, rowVars, filterVars, normVars, parseVars, assertVars, connVars, pkeyVars,
     pairVars>>

besidesCompare ==
    <<seedVars, rowVars, filterVars, normVars, parseVars, assertVars, connVars, pkeyVars,
     pairVars>>

besidesRow ==
    <<seedVars, cmpVars, filterVars, normVars, parseVars, assertVars, connVars, pkeyVars,
     pairVars>>

besidesFilter == <<seedVars, cmpVars, rowVars, normVars, parseVars, assertVars, connVars, pkeyVars,
     pairVars>>

besidesNormalize ==
    <<seedVars, cmpVars, rowVars, filterVars, parseVars, assertVars, connVars, pkeyVars,
     pairVars>>

besidesParse ==
    <<seedVars, cmpVars, rowVars, filterVars, normVars, assertVars, connVars, pkeyVars,
     pairVars>>

besidesAssert == <<seedVars, cmpVars, rowVars, filterVars, normVars, parseVars, connVars, pkeyVars,
     pairVars>>

besidesConn ==
    <<seedVars, cmpVars, rowVars, filterVars, normVars, parseVars, assertVars, pkeyVars,
     pairVars>>

besidesPkey ==
    <<seedVars, cmpVars, rowVars, filterVars, normVars, parseVars, assertVars, connVars,
     pairVars>>

besidesPair ==
    <<seedVars, cmpVars, rowVars, filterVars, normVars, parseVars, assertVars, connVars,
     pkeyVars>>

\* the parts a specification is not about, before any call
RowIdle == eRow = <<>> /\ aRow = <<>> /\ rowDiff = [Fields |-> <<>>, Status |-> ""]

FilterIdle == rowTags = <<>> /\ includeSet = <<>> /\ excludeSet = <<>> /\ accepted = ""

NormalizeIdle ==
    /\ rawTable = [Name |-> "", Rows |-> <<>>, Tags |-> <<>>]
    /\ primaryKeys = <<>>
    /\ tagFilter = <<<<>>, <<>>>>
    /\ normalized = [state |-> "", Rows |-> <<>>, missing |-> <<>>]

ParseIdle == document = <<>> /\ parses = <<>>

NoRun == [ti |-> 0, errs |-> <<>>, results |-> <<>>, ok |-> TRUE, failed |-> {},
          diffs |-> <<>>]

AssertIdle ==
    /\ apc = "idle"
    /\ assertIn = [Tables |-> <<>>, Match |-> <<>>, TargetTables |-> <<>>,
                   IncludeTags |-> <<>>, ExcludeTags |-> <<>>, content |-> <<>>]
    /\ assertRun = NoRun
    /\ returns = <<>>

NoConn == [source |-> "", kind |-> "", open |-> FALSE, cancelled |-> FALSE, queries |-> 0]

ConnIdle == cpc = "idle" /\ conn = NoConn

PkeyIdle == keyA = <<>> /\ keyB = <<>> /\ cmpOut = <<>>

PairIdle == seedIn = <<>> /\ seedOut = <<>>

-----------------------------------------------------------------------------
(* Values of Go type any. Strings are sequences of character codes.        *)

nil == [kind |-> "nil", i |-> 0, s |-> <<>>]

IntVal(n) == [kind |-> "int", i |-> n, s |-> <<>>]

StrVal(str) == [kind |-> "string", i |-> 0, s |-> str]

\* a one-element []any holding a string token: the placeholders of a dataset
SeqVal(token) == [kind |-> "seq", i |-> 0, s |-> token]

\* a one-element []any holding the null scalar
SeqNil == [kind |-> "seqnil", i |-> 0, s |-> <<>>]

\* a one-element []any holding an integer
SeqInt(n) == [kind |-> "seqint", i |-> n, s |-> <<>>]

Min(a, b) == IF a < b THEN a ELSE b

Range(f) == {f[x] : x \in DOMAIN f}

\* the elements of set S as a sequence, ascending under the order of integers
RECURSIVE SortedSeq(_)
SortedSeq(S) ==
    IF S = {} THEN <<>>
    ELSE LET m == CHOOSE x \in S : \A y \in S : x <= y
         IN <<m>> \o SortedSeq(S \ {m})

-----------------------------------------------------------------------------
(* Operation kinds (dataset.go).                                           *)

ClearInsertOperation == "clear-insert"
InsertOperation == "insert"
UpsertOperation == "upsert"
DeleteOperation == "delete"
TruncateOperation == "truncate"

Operations == {ClearInsertOperation, InsertOperation, UpsertOperation,
               DeleteOperation, TruncateOperation}

DefaultBatchSize == 50

-----------------------------------------------------------------------------
(* The database under test: the schema of the test fixtures.               *)

TableNames == {"user", "orders"}

\* every column name of the schema, in the order of Go string comparison
AllColumns ==
    <<"course_id", "email", "enrollment_date", "grade", "id", "name", "order_id",
      "product_id", "quantity", "student_id">>

ColumnsOf(t) ==
    CASE t = "user" -> {"id", "email"}
      [] t = "orders" -> {"order_id", "product_id", "quantity"}
      [] OTHER -> {"student_id", "course_id", "enrollment_date", "grade"}

\* what the PrimaryKeys query of each dialect returns (ORDER BY column name)
PrimaryKeys(t) ==
    CASE t = "user" -> <<"id">>
      [] t = "orders" -> <<"order_id", "product_id">>
      [] OTHER -> <<"course_id", "student_id">>

\* slices.Sorted(maps.Keys(m)) for a set of column names
SortedColumns(S) == SelectSeq(AllColumns, LAMBDA c : c \in S)

PkOf(t, row) == [k \in 1..Len(PrimaryKeys(t)) |-> row[PrimaryKeys(t)[k]]]

-----------------------------------------------------------------------------
(* Statement construction of the three adapters (dbconnector.go).  A       *)
(* placeholder string is the sequence of its groups: n > 0 stands for a    *)
(* parenthesised group of n placeholders, 0 for one bare placeholder.      *)

Repeat(x, n) == [k \in 1..n |-> x]

pgPlaceholders(columns, rows) == Repeat(columns, rows)

slPlaceholders(columns, records) == Repeat(columns, records)

NumPlaceholders(p) ==
    LET RECURSIVE Sum(_)
        Sum(k) == IF k = 0 THEN 0 ELSE Sum(k - 1) + (IF p[k] = 0 THEN 1 ELSE p[k])
    IN Sum(Len(p))

Statement(verb, table, columns, target, assigns, placeholders, args) ==
    [verb |-> verb, table |-> table, columns |-> columns, target |-> target,
     assigns |-> assigns, placeholders |-> placeholders, args |-> args]

\* Insert of every dialect: INSERT INTO t (columns) VALUES (..), (..)
InsertStmt(d, tableName, columns, values) ==
    Statement("insert", tableName, columns, <<>>, <<>>,
              IF d = "postgres"
              THEN pgPlaceholders(Len(columns), Len(values) \div Len(columns))
              ELSE slPlaceholders(Len(columns), Len(values) \div Len(columns)),
              values)

\* psqlDBConnector.Delete
psqlDelete(tableName, columns, values) ==
    IF Len(columns) > 1
    THEN Statement("delete", tableName, <<>>, <<>>, <<>>,
                   pgPlaceholders(Len(columns), Len(values) \div Len(columns)), values)
    ELSE Statement("delete", tableName, <<>>, <<columns[1]>>, <<>>,
                   Repeat(0, Len(columns)), values)

\* mysqlDBConnector.Delete and sqliteDBConnector.Delete
slDelete(tableName, columns, values) ==
    IF Len(columns) > 1
    THEN Statement("delete", tableName, <<>>, <<>>, <<>>,
                   slPlaceholders(Len(columns), Len(values) \div Len(columns)), values)
    ELSE Statement("delete", tableName, <<>>, <<columns[1]>>, <<>>,
                   Repeat(0, Len(values)), values)

DeleteStmt(d, tableName, columns, values) ==
    IF d = "postgres" THEN psqlDelete(tableName, columns, values)
    ELSE slDelete(tableName, columns, values)

\* an Upsert whose test for a primary-key column is inverted: it assigns the key columns
UpsertAssigningKeys(d, tableName, columns, pkeys, values) ==
    Statement("upsert", tableName, columns, pkeys,
              SelectSeq(columns, LAMBDA c : c \in Range(pkeys)),
              IF d = "postgres"
              THEN pgPlaceholders(Len(columns), Len(values) \div Len(columns))
              ELSE slPlaceholders(Len(columns), Len(values) \div Len(columns)),
              values)

\* Upsert of every dialect: the assignments are the columns that are no primary key
UpsertStmt(d, tableName, columns, pkeys, values) ==
    Statement("upsert", tableName, columns, pkeys,
              SelectSeq(columns, LAMBDA c : c \notin Range(pkeys)),
              IF d = "postgres"
              THEN pgPlaceholders(Len(columns), Len(values) \div Len(columns))
              ELSE slPlaceholders(Len(columns), Len(values) \div Len(columns)),
              values)

\* Truncate: TRUNCATE TABLE (postgres, mysql), DELETE FROM (sqlite)
TruncateStmt(d, tableName) ==
    Statement(IF d = "sqlite" THEN "delete-all" ELSE "truncate",
              tableName, <<>>, <<>>, <<>>, <<>>, <<>>)

-----------------------------------------------------------------------------
(* What the database does with a statement the adapter sends.  A table is  *)
(* a set of rows, a row a function from the table's columns to values; the *)
(* primary key is unique and not null.  The outcome is [ok, rows].         *)

Outcome(ok, rows) == [ok |-> ok, rows |-> rows]

\* the k-th group of values of a statement, as a row over all columns of its table
Proposed(stmt, k) ==
    LET w == Len(stmt.columns)
        at(c) == CHOOSE n \in 1..w : stmt.columns[n] = c
    IN [c \in ColumnsOf(stmt.table) |->
            IF c \in Range(stmt.columns) THEN stmt.args[(k - 1) * w + at(c)] ELSE nil]

HasNullKey(t, row) == \E k \in 1..Len(PrimaryKeys(t)) : row[PrimaryKeys(t)[k]] = nil

ExecInsert(rows, stmt) ==
    LET n == Len(stmt.placeholders)
        t == stmt.table
        new == [k \in 1..n |-> Proposed(stmt, k)]
    IN IF \/ n = 0
          \/ NumPlaceholders(stmt.placeholders) # Len(stmt.args)
       THEN Outcome(FALSE, rows)
       ELSE IF \/ \E k \in 1..n : HasNullKey(t, new[k])
               \/ \E k \in 1..n : \E r \in rows : PkOf(t, r) = PkOf(t, new[k])
               \/ \E j, k \in 1..n : j # k /\ PkOf(t, new[j]) = PkOf(t, new[k])
            THEN Outcome(FALSE, rows)
            ELSE Outcome(TRUE, rows \cup Range(new))

\* one proposed row of an upsert: update the assigned columns on conflict, else insert
UpsertRow(t, rows, assigns, p) ==
    IF \E r \in rows : PkOf(t, r) = PkOf(t, p)
    THEN {IF PkOf(t, r) = PkOf(t, p)
          THEN [c \in ColumnsOf(t) |-> IF c \in Range(assigns) THEN p[c] ELSE r[c]]
          ELSE r : r \in rows}
    ELSE rows \cup {p}

RECURSIVE UpsertRows(_, _, _)
UpsertRows(rows, stmt, k) ==
    IF k > Len(stmt.placeholders) THEN rows
    ELSE UpsertRows(UpsertRow(stmt.table, rows, stmt.assigns, Proposed(stmt, k)),
                    stmt, k + 1)

\* INSERT .. ON CONFLICT(pk) DO UPDATE SET .. / ON DUPLICATE KEY UPDATE ..
\* PostgreSQL refuses a statement that proposes one key twice.
ExecUpsert(d, rows, stmt) ==
    LET n == Len(stmt.placeholders)
        t == stmt.table
    IN IF \/ n = 0
          \/ NumPlaceholders(stmt.placeholders) # Len(stmt.args)
          \/ stmt.assigns = <<>>
          \/ (d # "mysql" /\ stmt.target # PrimaryKeys(t))
       THEN Outcome(FALSE, rows)
       ELSE IF \/ \E k \in 1..n : HasNullKey(t, Proposed(stmt, k))
               \/ /\ d = "postgres"
                  /\ \E j, k \in 1..n :
                        j # k /\ PkOf(t, Proposed(stmt, j)) = PkOf(t, Proposed(stmt, k))
            THEN Outcome(FALSE, rows)
            ELSE Outcome(TRUE, UpsertRows(rows, stmt, 1))

\* the value list of DELETE .. WHERE lhs IN (list), as a set of tuples of the
\* width of lhs; a tuple holding NULL equals nothing
InList(stmt) ==
    LET w == Len(stmt.target)
        n == Len(stmt.args) \div w
    IN {[c \in 1..w |-> stmt.args[(k - 1) * w + c]] : k \in 1..n}

\* DELETE FROM t WHERE lhs IN (list): a syntax error without lhs, an error when
\* the arguments do not fill the placeholders, and (but for SQLite) on an empty list
ExecDelete(d, rows, stmt) ==
    IF \/ stmt.target = <<>>
       \/ NumPlaceholders(stmt.placeholders) # Len(stmt.args)
       \/ (stmt.placeholders = <<>> /\ d # "sqlite")
    THEN Outcome(FALSE, rows)
    ELSE Outcome(TRUE,
            {r \in rows : [c \in 1..Len(stmt.target) |-> r[stmt.target[c]]] \notin InList(stmt)})

\* TRUNCATE TABLE t / DELETE FROM t
ExecTruncate(rows, stmt) == Outcome(TRUE, {})

Exec(d, rows, stmt) ==
    CASE stmt.verb = "insert" -> ExecInsert(rows, stmt)
      [] stmt.verb = "upsert" -> ExecUpsert(d, rows, stmt)
      [] stmt.verb = "delete" -> ExecDelete(d, rows, stmt)
      [] OTHER -> ExecTruncate(rows, stmt)

\* MySQL commits the open transaction before and after TRUNCATE TABLE
ImplicitCommit(d, stmt) == d = "mysql" /\ stmt.verb = "truncate"

-----------------------------------------------------------------------------
(* Seed (seed.go).                                                         *)

\* filter (dataset.go): the tag filter shared by Seed and SortAndFilter
\* a tag filter that accepts a row carrying any one of the include tags
filterAnyInclude(src, includes, excludes) ==
    IF \E e \in Range(excludes) : e \in Range(src) THEN FALSE
    ELSE IF Len(includes) = 0 THEN TRUE
    ELSE \E i \in Range(includes) : i \in Range(src)

filter(src, includes, excludes) ==
    IF \E e \in Range(excludes) : e \in Range(src) THEN FALSE
    ELSE IF Len(includes) = 0 THEN TRUE
    ELSE \A i \in Range(includes) : i \in Range(src)

\* the two scoping tests of Seed: a table is skipped when TargetTables is
\* non-empty and does not contain it
InScope(o, name) == Len(o.TargetTables) > 0 => name \in Range(o.TargetTables)

\* a planning loop whose switch lacks the case for the unset operation
PlanOpsWithoutUnset(d, o) ==
    [t \in TableNames |->
        IF /\ \E k \in 1..Len(d.Tables) : d.Tables[k].Name = t
           /\ InScope(o, t)
           /\ o.Operations[t] \in {ClearInsertOperation, TruncateOperation}
        THEN TruncateOperation
        ELSE o.Operations[t]]

\* the local map ops after the planning loop: the caller's overrides, with every
\* in-scope dataset table of operation clear-insert, "" or truncate set to truncate
PlanOps(d, o) ==
    [t \in TableNames |->
        IF /\ \E k \in 1..Len(d.Tables) : d.Tables[k].Name = t
           /\ InScope(o, t)
           /\ o.Operations[t] \in {ClearInsertOperation, "", TruncateOperation}
        THEN TruncateOperation
        ELSE o.Operations[t]]

\* a data loop whose switch sends the truncate operation to the insert case
TaskOfInsertingOnTruncate(o, name) ==
    CASE o.Operations[name] \in {ClearInsertOperation, "", InsertOperation,
                                 TruncateOperation} -> "insert"
      [] o.Operations[name] = UpsertOperation -> "upsert"
      [] o.Operations[name] = DeleteOperation -> "delete"
      [] OTHER -> ""

\* the task the data loop runs for a table: "" when the switch has no case for it
TaskOf(o, name) ==
    CASE o.Operations[name] \in {ClearInsertOperation, "", InsertOperation} -> "insert"
      [] o.Operations[name] = UpsertOperation -> "upsert"
      [] o.Operations[name] = DeleteOperation -> "delete"
      [] OTHER -> ""

\* the data loop from index k on: the first table it does not pass over, or
\* Len + 1 when the loop ends
RECURSIVE NextTable(_, _, _)
NextTable(d, o, k) ==
    IF k > Len(d.Tables) THEN k
    ELSE IF InScope(o, d.Tables[k].Name) /\ TaskOf(o, d.Tables[k].Name) # ""
         THEN k
         ELSE NextTable(d, o, k + 1)

AfterTable(d, o, k) == IF NextTable(d, o, k) > Len(d.Tables) THEN "commit" ELSE "table"

\* a batch that ends at the last row of the table
BatchEndAtLastRow(t, o, i) == Len(t.Rows)

\* end of the batch that starts at row offset i
BatchEnd(t, o, i) == Min(i + o.BatchSize, Len(t.Rows))

\* batch columns taken from the first row of the batch alone
BatchColumnsOfFirstRow(t, o, i) == SortedColumns(DOMAIN t.Rows[i + 1])

\* columns of an insert or upsert batch: every key of every row of the batch, sorted
BatchColumns(t, o, i) ==
    SortedColumns(UNION {DOMAIN t.Rows[k] : k \in (i + 1)..BatchEnd(t, o, i)})

\* batch values that start at the first row of the table
BatchValuesFromTableStart(t, o, i, columns) ==
    LET RECURSIVE V(_)
        V(k) == IF k > BatchEnd(t, o, i) THEN <<>>
                ELSE (IF filter(t.Tags[k], o.IncludeTags, o.ExcludeTags)
                      THEN [c \in 1..Len(columns) |->
                                IF columns[c] \in DOMAIN t.Rows[k]
                                THEN t.Rows[k][columns[c]] ELSE nil]
                      ELSE <<>>) \o V(k + 1)
    IN V(1)

\* values of a batch: the rows that pass the tag filter, projected on columns
BatchValues(t, o, i, columns) ==
    LET RECURSIVE V(_)
        V(k) == IF k > BatchEnd(t, o, i) THEN <<>>
                ELSE (IF filter(t.Tags[k], o.IncludeTags, o.ExcludeTags)
                      THEN [c \in 1..Len(columns) |->
                                IF columns[c] \in DOMAIN t.Rows[k]
                                THEN t.Rows[k][columns[c]] ELSE nil]
                      ELSE <<>>) \o V(k + 1)
    IN V(i + 1)

\* the adapter call of one batch of processInsertOperation / processDeleteOperation
BatchStmt(d, task, t, o, i, pkeys) ==
    CASE task = "insert" ->
            InsertStmt(d, t.Name, BatchColumns(t, o, i),
                       BatchValues(t, o, i, BatchColumns(t, o, i)))
      [] task = "upsert" ->
            UpsertStmt(d, t.Name, BatchColumns(t, o, i), pkeys,
                       BatchValues(t, o, i, BatchColumns(t, o, i)))
      [] OTHER ->
            DeleteStmt(d, t.Name, pkeys, BatchValues(t, o, i, pkeys))

\* len(values)/len(columns) divides by zero, columns[0] is out of range
BatchPanics(task, t, o, i, pkeys) ==
    IF task = "delete" THEN Len(pkeys) = 0 ELSE Len(BatchColumns(t, o, i)) = 0

Call(table, task, start, e) == [table |-> table, task |-> task, start |-> start, err |-> e]

\* the error the end callback of a task is given: Seed passes err for truncate
\* and delete, and nil for insert and upsert
ReportedErr(task, e) == IF task \in {"truncate", "delete"} THEN e ELSE "nil"

\* Seed from its first line to the end of the planning loop: the default batch
\* size, BeginTx (which may fail), the copy of the overrides and the truncate marks
Enter(s, d, o, beginOk) ==
    /\ pc = "idle"
    /\ surface' = s
    /\ data' = d
    /\ opt' = [o EXCEPT !.BatchSize = IF @ = 0 THEN DefaultBatchSize ELSE @]
    /\ dbBefore' = db
    /\ ops' = IF beginOk THEN PlanOps(d, o) ELSE o.Operations
    /\ pending' = IF beginOk
                  THEN {t \in TableNames : PlanOps(d, o)[t] = TruncateOperation}
                  ELSE {}
    /\ ti' = NextTable(d, o, 1)
    /\ pc' = IF ~beginOk THEN "done"
             ELSE IF pending' # {} THEN "truncate"
             ELSE AfterTable(d, o, 1)
    /\ err' = IF beginOk THEN "" ELSE "error"
    /\ faulted' = ~beginOk
    /\ UNCHANGED <<dialect, db, txdb, autocommit, bi, pKeys, stmts, calls, committed>>
    /\ UNCHANGED besidesSeed

\* the database after a statement: the transaction sees its effect; a MySQL
\* session that has left the transaction commits every statement at once
TxAfter(stmt, out) == IF out.ok THEN [txdb EXCEPT ![stmt.table] = out.rows] ELSE txdb

AutoAfter(stmt, out) == autocommit \/ (out.ok /\ ImplicitCommit(dialect, stmt))

DbAfter(stmt, out) == IF AutoAfter(stmt, out) THEN TxAfter(stmt, out) ELSE db

\* one pass of the truncate loop, for one key of ops (Go visits a map in any order)
Truncate(t) ==
    /\ pc = "truncate"
    /\ t \in pending
    /\ \E fail \in BOOLEAN :
        LET stmt == TruncateStmt(dialect, t)
            out == IF fail THEN Outcome(FALSE, txdb[t]) ELSE Exec(dialect, txdb[t], stmt)
            e == IF out.ok THEN "nil" ELSE "error"
        IN /\ stmts' = Append(stmts, stmt)
           /\ calls' = calls \o <<Call(t, "truncate", TRUE, "nil"),
                                  Call(t, "truncate", FALSE, ReportedErr("truncate", e))>>
           /\ autocommit' = AutoAfter(stmt, out)
           /\ db' = DbAfter(stmt, out)
           /\ txdb' = IF out.ok THEN TxAfter(stmt, out) ELSE db'
           /\ pending' = pending \ {t}
           /\ faulted' = (faulted \/ fail)
           /\ err' = IF out.ok THEN "" ELSE "error"
           /\ pc' = IF ~out.ok THEN "done"
                    ELSE IF pending' # {} THEN "truncate"
                    ELSE AfterTable(data, opt, 1)
    /\ UNCHANGED <<surface, dialect, dbBefore, data, parsed, opt, ops, ti, bi, pKeys,
                   committed>>
    /\ UNCHANGED besidesSeed

\* the data loop reaches a table: the start callback and, for upsert and delete,
\* the primary-key lookup (which may fail); a table without rows ends here
BeginTable ==
    /\ pc = "table"
    /\ LET t == data.Tables[ti]
           task == TaskOf(opt, t.Name)
       IN \E fail \in {FALSE} \cup {task # "insert"} :
            LET e == IF fail THEN "error" ELSE "nil"
                over == fail \/ Len(t.Rows) = 0
            IN /\ pKeys' = IF task = "insert" \/ fail THEN <<>> ELSE PrimaryKeys(t.Name)
               /\ calls' = calls \o <<Call(t.Name, task, TRUE, "nil")>> \o
                           (IF over THEN <<Call(t.Name, task, FALSE, ReportedErr(task, e))>>
                            ELSE <<>>)
               /\ bi' = 0
               /\ faulted' = (faulted \/ fail)
               /\ err' = IF fail THEN "error" ELSE ""
               /\ txdb' = IF fail THEN db ELSE txdb
               /\ ti' = IF over /\ ~fail THEN NextTable(data, opt, ti + 1) ELSE ti
               /\ pc' = IF fail THEN "done"
                        ELSE IF over THEN AfterTable(data, opt, ti + 1)
                        ELSE "batch"
    /\ UNCHANGED <<surface, dialect, db, dbBefore, autocommit, data, opt, ops, pending,
                   stmts, committed, parsed>>
    /\ UNCHANGED besidesSeed

\* one pass of the batch loop of processInsertOperation / processDeleteOperation
Batch ==
    /\ pc = "batch"
    /\ LET t == data.Tables[ti]
           task == TaskOf(opt, t.Name)
       IN IF BatchPanics(task, t, opt, bi, pKeys)
          THEN /\ err' = "panic"
               /\ pc' = "done"
               /\ txdb' = db
               /\ UNCHANGED <<db, autocommit, stmts, calls, ti, bi, faulted>>
          ELSE \E fail \in BOOLEAN :
                LET stmt == BatchStmt(dialect, task, t, opt, bi, pKeys)
                    out == IF fail THEN Outcome(FALSE, txdb[t.Name])
                           ELSE Exec(dialect, txdb[t.Name], stmt)
                    e == IF out.ok THEN "nil" ELSE "error"
                    last == bi + opt.BatchSize >= Len(t.Rows)
                IN /\ stmts' = Append(stmts, stmt)
                   /\ calls' = IF ~out.ok \/ last
                               THEN Append(calls, Call(t.Name, task, FALSE, ReportedErr(task, e)))
                               ELSE calls
                   /\ autocommit' = AutoAfter(stmt, out)
                   /\ db' = DbAfter(stmt, out)
                   /\ txdb' = IF out.ok THEN TxAfter(stmt, out) ELSE db'
                   /\ faulted' = (faulted \/ fail)
                   /\ err' = IF out.ok THEN "" ELSE "error"
                   /\ bi' = IF out.ok /\ ~last THEN bi + opt.BatchSize ELSE bi
                   /\ ti' = IF out.ok /\ last THEN NextTable(data, opt, ti + 1) ELSE ti
                   /\ pc' = IF ~out.ok THEN "done"
                            ELSE IF last THEN AfterTable(data, opt, ti + 1)
                            ELSE "batch"
    /\ UNCHANGED <<surface, dialect, dbBefore, data, parsed, opt, ops, pending, pKeys,
                   committed>>
    /\ UNCHANGED besidesSeed

\* tx.Commit() and return nil: the result of Commit is dropped; the deferred
\* Rollback discards what a failed Commit left
Commit ==
    /\ pc = "commit"
    /\ \E ok \in BOOLEAN :
        /\ committed' = ok
        /\ faulted' = (faulted \/ ~ok)
        /\ db' = IF ok THEN txdb ELSE db
        /\ txdb' = db'
    /\ err' = "nil"
    /\ pc' = "done"
    /\ UNCHANGED <<surface, dialect, dbBefore, autocommit, data, opt, ops, pending, ti, bi,
                   pKeys, stmts, calls, parsed>>
    /\ UNCHANGED besidesSeed

-----------------------------------------------------------------------------
(* The table diff of the assert engine (assert.go).                        *)

ExactMatchStrategy == "exact"
SubMatchStrategy == "sub"

Match == "match"
NotMatch == "not-match"
OnlyOnExpect == "only-e"
OnlyOnActual == "only-a"
WrongDataSet == "wrongDataSet"

\* the tokens of the placeholders
TokenNull == <<110, 117, 108, 108>>
TokenNotNull == <<110, 111, 116, 110, 117, 108, 108>>
TokenAny == <<97, 110, 121>>

\* Value{Key, Value}: one field of a normalised row
Field(key, value) == [Key |-> key, Value |-> value]

\* Diff{Key, Expect, Actual, Status}: a field the literal leaves out is zero
Diff(key, e, a, status) == [Key |-> key, Expect |-> e, Actual |-> a, Status |-> status]

RowDiff(fields, status) == [Fields |-> fields, Status |-> status]

\* cmp.Compare on integers
CompareInt(a, b) == IF a < b THEN -1 ELSE IF a > b THEN 1 ELSE 0

\* cmp.Compare on strings: byte by byte, a proper prefix first
RECURSIVE CompareString(_, _)
CompareString(x, y) ==
    IF x = <<>> /\ y = <<>> THEN 0
    ELSE IF x = <<>> THEN -1
    ELSE IF y = <<>> THEN 1
    ELSE IF Head(x) # Head(y) THEN CompareInt(Head(x), Head(y))
    ELSE CompareString(Tail(x), Tail(y))

\* the decimal digits of n >= 0
RECURSIVE Digits(_)
Digits(n) == IF n < 10 THEN <<48 + n>> ELSE Digits(n \div 10) \o <<48 + (n % 10)>>

\* fmt.Sprint of a value
Sprint(v) ==
    CASE v.kind = "int" -> IF v.i < 0 THEN <<45>> \o Digits(0 - v.i) ELSE Digits(v.i)
      [] v.kind = "string" -> v.s
      [] v.kind = "nil" -> <<60, 110, 105, 108, 62>>
      [] v.kind = "seqnil" -> <<91, 60, 110, 105, 108, 62, 93>>
      [] v.kind = "seqint" -> <<91>> \o Digits(v.i) \o <<93>>
      [] OTHER -> <<91>> \o v.s \o <<93>>

\* a comparison of column names with its operands exchanged
CompareKeyExchanged(k1, k2) ==
    CompareInt(CHOOSE n \in 1..Len(AllColumns) : AllColumns[n] = k2,
               CHOOSE n \in 1..Len(AllColumns) : AllColumns[n] = k1)

\* the order of two Go strings that are column names
CompareKey(k1, k2) ==
    CompareInt(CHOOSE n \in 1..Len(AllColumns) : AllColumns[n] = k1,
               CHOOSE n \in 1..Len(AllColumns) : AllColumns[n] = k2)

\* one pass of the loop of comparePkey: c starts at -1, is set by the typed
\* comparison when both values have the same primitive type, and is replaced by
\* the comparison of the printed values whenever it is -1
comparePkeyValue(v1, v2) ==
    LET typed == IF v1.kind = "int" /\ v2.kind = "int" THEN CompareInt(v1.i, v2.i)
                 ELSE IF v1.kind = "string" /\ v2.kind = "string"
                      THEN CompareString(v1.s, v2.s)
                      ELSE -1
    IN IF typed = -1 THEN CompareString(Sprint(v1), Sprint(v2)) ELSE typed

comparePkey(pkeyCount, key1, key2) ==
    LET RECURSIVE From(_)
        From(i) == IF i > pkeyCount THEN 0
                   ELSE IF comparePkeyValue(key1[i].Value, key2[i].Value) # 0
                        THEN comparePkeyValue(key1[i].Value, key2[i].Value)
                        ELSE From(i + 1)
    IN From(1)

\* a field diff whose notnull case tests the actual value for null
compareFieldNotNullInverted(e, a) ==
    IF e.Value.kind \in {"seq", "seqnil", "seqint"}
    THEN IF e.Value.kind = "seqnil" \/ (e.Value.kind = "seq" /\ e.Value.s = TokenNull)
         THEN Diff(e.Key, e.Value, a.Value, IF a.Value = nil THEN Match ELSE NotMatch)
         ELSE IF e.Value.kind = "seq" /\ e.Value.s = TokenNotNull
         THEN Diff(e.Key, e.Value, a.Value, IF a.Value = nil THEN Match ELSE NotMatch)
         ELSE IF e.Value.kind = "seq" /\ e.Value.s = TokenAny
         THEN Diff(e.Key, e.Value, a.Value, Match)
         ELSE Diff(e.Key, e.Value, a.Value, "panic")
    ELSE Diff(e.Key, e.Value, a.Value, IF e.Value = a.Value THEN Match ELSE NotMatch)

\* the diff of one field present in both rows; status "panic" for a one-element
\* sequence whose token the switch does not know (a token that is no string
\* fails the type assertion inside the panic message)
compareField(e, a) ==
    IF e.Value.kind \in {"seq", "seqnil", "seqint"}
    THEN IF e.Value.kind = "seqnil" \/ (e.Value.kind = "seq" /\ e.Value.s = TokenNull)
         THEN Diff(e.Key, e.Value, a.Value, IF a.Value = nil THEN Match ELSE NotMatch)
         ELSE IF e.Value.kind = "seq" /\ e.Value.s = TokenNotNull
         THEN Diff(e.Key, e.Value, a.Value, IF a.Value # nil THEN Match ELSE NotMatch)
         ELSE IF e.Value.kind = "seq" /\ e.Value.s = TokenAny
         THEN Diff(e.Key, e.Value, a.Value, Match)
         ELSE Diff(e.Key, e.Value, a.Value, "panic")
    ELSE Diff(e.Key, e.Value, a.Value, IF e.Value = a.Value THEN Match ELSE NotMatch)

\* what a loop has appended so far and what it has left of its flag
Emitted(items, ok) == [items |-> items, ok |-> ok]

\* an append that leaves the flag as the later passes set it
EmitKeepingFlag(item, ok, rest) == Emitted(<<item>> \o rest.items, rest.ok)

Emit(item, ok, rest) == Emitted(<<item>> \o rest.items, ok /\ rest.ok)

\* compareRow: the primary-key fields as Match, then the merge of the other
\* fields by name with the flag allOk; RowDiff(<<>>, "panic") when it panics
compareRow(offset, expectedRow, actualRow) ==
    LET RECURSIVE Fields(_, _)
        Fields(i, j) ==
            IF i <= Len(expectedRow) /\ j <= Len(actualRow)
            THEN IF expectedRow[i].Key = actualRow[j].Key
                 THEN LET d == compareField(expectedRow[i], actualRow[j])
                      IN Emit(d, d.Status = Match, Fields(i + 1, j + 1))
                 ELSE IF CompareKey(expectedRow[i].Key, actualRow[j].Key) > 0
                 THEN Fields(i, j + 1)
                 ELSE Emit(Diff(expectedRow[i].Key, expectedRow[i].Value, nil, WrongDataSet),
                           FALSE, Fields(i + 1, j))
            ELSE IF i <= Len(expectedRow)
            THEN Emit(Diff(expectedRow[i].Key, expectedRow[i].Value, nil, WrongDataSet),
                      FALSE, Fields(i + 1, j))
            ELSE Emitted(<<>>, TRUE)
        keys == [o \in 1..offset |->
                    Diff(expectedRow[o].Key, expectedRow[o].Value, actualRow[o].Value, Match)]
        rest == Fields(offset + 1, offset + 1)
    IN IF \E n \in 1..Len(rest.items) : rest.items[n].Status = "panic"
       THEN RowDiff(<<>>, "panic")
       ELSE RowDiff(keys \o rest.items, IF rest.ok THEN Match ELSE NotMatch)

\* the row compareTable emits for a row found on one side only
OnlyRow(row, status) ==
    RowDiff([n \in 1..Len(row) |->
                IF status = OnlyOnExpect THEN Diff(row[n].Key, row[n].Value, nil, "")
                ELSE Diff(row[n].Key, nil, row[n].Value, "")],
            status)

\* the bound on the counter c of the merge loop of compareTable
MergeLimit == 10

TableResult(status, rows) == [Status |-> status, Rows |-> rows]

\* compareTable: the merge loop, the two drain loops and the status from the
\* flag ok; TableResult("panic", <<>>) when compareRow panics
compareTable(strat, pkeyCount, expectedRows, actualRows) ==
    LET onlyActual(j, rest) ==
            IF strat = ExactMatchStrategy
            THEN Emit(OnlyRow(actualRows[j], OnlyOnActual), FALSE, rest)
            ELSE rest
        RECURSIVE Loop(_, _, _)
        Loop(i, j, c) ==
            IF i <= Len(expectedRows) /\ j <= Len(actualRows) /\ c < MergeLimit
            THEN LET cr == comparePkey(pkeyCount, expectedRows[i], actualRows[j])
                     row == compareRow(pkeyCount, expectedRows[i], actualRows[j])
                 IN IF cr = 0
                    THEN Emit(row, row.Status = Match, Loop(i + 1, j + 1, c + 1))
                    ELSE IF cr = -1
                    THEN Emit(OnlyRow(expectedRows[i], OnlyOnExpect), FALSE,
                              Loop(i + 1, j, c + 1))
                    ELSE onlyActual(j, Loop(i, j + 1, c + 1))
            ELSE IF i <= Len(expectedRows)
            THEN Emit(OnlyRow(expectedRows[i], OnlyOnExpect), FALSE, Loop(i + 1, j, c))
            ELSE IF j <= Len(actualRows)
            THEN onlyActual(j, Loop(i, j + 1, c))
            ELSE Emitted(<<>>, TRUE)
        out == Loop(1, 1, 0)
    IN IF \E n \in 1..Len(out.items) : out.items[n].Status = "panic"
       THEN TableResult("panic", <<>>)
       ELSE TableResult(IF out.ok THEN Match ELSE NotMatch, out.items)

-----------------------------------------------------------------------------
(* Bounds of the model and the inputs drawn within them.                   *)

MaxRows == 2      \* rows of a dataset table
MaxBatch == 1     \* largest explicit batch size (0 selects the default)

\* primary-key values of dataset rows; the fixtures hold the keys 1 and 3
Ids == {1, 2}

\* dataset rows of a table: every primary key, with or without the other column
RowUniverse(t) ==
    IF t = "user"
    THEN {[id |-> IntVal(k)] : k \in Ids}
         \cup {[id |-> IntVal(k), email |-> IntVal(10 + k)] : k \in Ids}
    ELSE {[order_id |-> IntVal(1), product_id |-> IntVal(k)] : k \in Ids}
         \cup {[order_id |-> IntVal(1), product_id |-> IntVal(k),
                quantity |-> IntVal(10 + k)] : k \in Ids}

RowLists(t, n) == UNION {[1..m -> RowUniverse(t)] : m \in 0..n}

\* the first row of a table carries the tag x, the others no tag
Table(t, rows) ==
    [Name |-> t, Rows |-> rows,
     Tags |-> [k \in 1..Len(rows) |-> IF k = 1 THEN <<"x">> ELSE <<>>]]

EmptyOps == [t \in TableNames |-> ""]

\* a dataset without an _operation key: its Operation map is nil
DataSet(tables) == [Operation |-> EmptyOps, declared |-> FALSE, Tables |-> tables]

SeedOpt(batchSize, operations, includes, excludes, targets) ==
    [BatchSize |-> batchSize, Operations |-> operations, IncludeTags |-> includes,
     ExcludeTags |-> excludes, TargetTables |-> targets]

TagOptions == {<<<<>>, <<>>>>, <<<<"x">>, <<>>>>, <<<<>>, <<"x">>>>}

\* one table with any rows, any override for it, any tag filter and batch size
OneTableInputsOf(t) ==
    {[data |-> DataSet(<<Table(t, rows)>>),
      opt |-> SeedOpt(b, [EmptyOps EXCEPT ![t] = op], tags[1], tags[2], <<>>)] :
        rows \in RowLists(t, MaxRows), op \in Operations \cup {""},
        tags \in TagOptions, b \in 0..MaxBatch}

OneTableInputs == UNION {OneTableInputsOf(t) : t \in TableNames}

OtherTable(t) == CHOOSE u \in TableNames : u # t

\* the row of a table that names every column and a key the fixtures lack
NewRow(t) ==
    CHOOSE r \in RowUniverse(t) :
        /\ DOMAIN r = ColumnsOf(t)
        /\ PkOf(t, r)[Len(PrimaryKeys(t))] = IntVal(2)

\* both tables with one row each, in either order, any overrides, any target list
TwoTableInputs ==
    {[data |-> DataSet(<<Table(t, <<NewRow(t)>>), Table(OtherTable(t), <<NewRow(OtherTable(t))>>)>>),
      opt |-> SeedOpt(0, o, <<>>, <<>>, targets)] :
        t \in TableNames, o \in [TableNames -> Operations \cup {""}],
        targets \in {<<>>} \cup {<<u>> : u \in TableNames}}

\* datasets of one table "user" of at most one row whose _operation key may
\* declare an operation for it
DeclaredDataSets ==
    {[Operation |-> [EmptyOps EXCEPT !["user"] = op], declared |-> op # "",
      Tables |-> <<Table("user", rows)>>] :
        rows \in RowLists("user", 1), op \in Operations \cup {""}}

DeclaredInputs ==
    {[data |-> d, opt |-> SeedOpt(0, [EmptyOps EXCEPT !["user"] = op], <<>>, <<>>, <<>>)] :
        d \in DeclaredDataSets, op \in Operations \cup {""}}

LibraryInputs == OneTableInputs \cup TwoTableInputs \cup DeclaredInputs

\* the fixtures: the rows the tables hold before Seed is called
InitialDB(ids) ==
    [t \in TableNames |->
        IF t = "user"
        THEN {[id |-> IntVal(k), email |-> IF k = 1 THEN IntVal(51) ELSE nil] : k \in ids}
        ELSE {[order_id |-> IntVal(1), product_id |-> IntVal(k),
               quantity |-> IF k = 1 THEN IntVal(51) ELSE nil] : k \in ids}]

InitialDBs == {InitialDB({1, 3}), InitialDB({3})}

-----------------------------------------------------------------------------
(* The callers of Seed.                                                    *)

WithTruncates(m, truncates) ==
    [t \in TableNames |-> IF t \in Range(truncates) THEN TruncateOperation ELSE m[t]]

\* a program calls Seed with its own options
LibrarySeed ==
    /\ pc = "idle"
    /\ \E in \in LibraryInputs, beginOk \in BOOLEAN :
        Enter("lib", in.data, in.opt, beginOk) /\ parsed' = in.data

\* assertdb.SeedDataSet called with opt = nil: Seed gets the zero SeedOpt
SeedDataSet ==
    /\ pc = "idle"
    /\ \E d \in DeclaredDataSets, beginOk \in BOOLEAN :
        /\ Enter("helper", d, SeedOpt(0, EmptyOps, <<>>, <<>>, <<>>), beginOk)
        /\ parsed' = d

\* httpapi.seedTable: Operations starts empty and gets the truncates of the request
seedTable ==
    /\ pc = "idle"
    /\ \E d \in DeclaredDataSets, truncates \in {<<>>, <<"user">>}, beginOk \in BOOLEAN :
        /\ Enter("http", d,
                 SeedOpt(DefaultBatchSize, WithTruncates(EmptyOps, truncates), <<>>, <<>>, <<>>),
                 beginOk)
        /\ parsed' = d

\* the seed command of cmd/dbtestify: Operations is the dataset's own map, into
\* which the --truncate flags are written (the DataSet changes with it);
\* writing into a nil map panics
mainSeed ==
    /\ pc = "idle"
    /\ \E d \in DeclaredDataSets, truncates \in {<<>>, <<"user">>}, beginOk \in BOOLEAN :
        IF ~d.declared /\ Len(truncates) > 0
        THEN /\ pc' = "done"
             /\ err' = "panic"
             /\ surface' = "cli"
             /\ data' = d
             /\ parsed' = d
             /\ UNCHANGED <<dialect, db, dbBefore, txdb, autocommit, opt, ops, pending, ti,
                            bi, pKeys, stmts, calls, committed, faulted>>
             /\ UNCHANGED besidesSeed
        ELSE /\ Enter("cli",
                      [d EXCEPT !.Operation = WithTruncates(d.Operation, truncates)],
                      SeedOpt(DefaultBatchSize, WithTruncates(d.Operation, truncates),
                              <<>>, <<>>, <<>>),
                      beginOk)
             /\ parsed' = d

NoResult == TableResult("", <<>>)

Init ==
    /\ pc = "idle"
    /\ surface = ""
    /\ dialect \in {"postgres", "mysql", "sqlite"}
    /\ db \in InitialDBs
    /\ dbBefore = db
    /\ txdb = db
    /\ autocommit = FALSE
    /\ data = DataSet(<<>>)
    /\ parsed = DataSet(<<>>)
    /\ opt = SeedOpt(0, EmptyOps, <<>>, <<>>, <<>>)
    /\ ops = EmptyOps
    /\ pending = {}
    /\ ti = 1
    /\ bi = 0
    /\ pKeys = <<>>
    /\ stmts = <<>>
    /\ calls = <<>>
    /\ err = ""
    /\ committed = FALSE
    /\ faulted = FALSE
    /\ expected = <<>>
    /\ actual = <<>>
    /\ strategy = ""
    /\ result = NoResult
    /\ RowIdle /\ FilterIdle /\ NormalizeIdle /\ ParseIdle /\ AssertIdle /\ ConnIdle /\ PkeyIdle
    /\ PairIdle

Next ==
    \/ LibrarySeed
    \/ SeedDataSet
    \/ seedTable
    \/ mainSeed
    \/ \E t \in TableNames : Truncate(t)
    \/ BeginTable
    \/ Batch
    \/ Commit

Spec == Init /\ [][Next]_vars

-----------------------------------------------------------------------------
(* compareTable on its own: the arguments are drawn, then the call is made. *)

MaxKey == 12      \* primary-key values of the compared rows: 1..MaxKey

\* a normalised row of table user: the primary key first, then the other field
UserRow(k, v) == <<Field("id", IntVal(k)), Field("email", v)>>

\* rows of the keys 1..n but d in ascending order; the row of key x holds v, every
\* other row the string of its key
RowsUpTo(n, d, x, v) ==
    LET keys == SortedSeq({k \in 1..n : k # d})
    IN [m \in 1..Len(keys) |->
            UserRow(keys[m], IF keys[m] = x THEN v ELSE StrVal(Digits(keys[m])))]

ExpectedInputs == {RowsUpTo(n, d, 0, nil) : n \in 0..MaxKey, d \in 0..MaxKey}

ActualInputs ==
    {RowsUpTo(n, d, x, nil) : n \in 0..MaxKey, d \in 0..MaxKey, x \in {0, 1}}

InitCompare ==
    /\ pc = "idle"
    /\ surface = ""
    /\ dialect = "sqlite"
    /\ db = InitialDB({})
    /\ dbBefore = db
    /\ txdb = db
    /\ autocommit = FALSE
    /\ data = DataSet(<<>>)
    /\ parsed = DataSet(<<>>)
    /\ opt = SeedOpt(0, EmptyOps, <<>>, <<>>, <<>>)
    /\ ops = EmptyOps
    /\ pending = {}
    /\ ti = 1
    /\ bi = 0
    /\ pKeys = <<>>
    /\ stmts = <<>>
    /\ calls = <<>>
    /\ err = ""
    /\ committed = FALSE
    /\ faulted = FALSE
    /\ expected \in ExpectedInputs
    /\ actual \in ActualInputs
    /\ strategy \in {ExactMatchStrategy, SubMatchStrategy}
    /\ result = NoResult
    /\ RowIdle /\ FilterIdle /\ NormalizeIdle /\ ParseIdle /\ AssertIdle /\ ConnIdle /\ PkeyIdle
    /\ PairIdle

\* the call of compareTable that Assert makes for a table with one primary key
CallCompareTable ==
    /\ result = NoResult
    /\ result' = compareTable(strategy, Len(PrimaryKeys("user")), expected, actual)
    /\ UNCHANGED <<expected, actual, strategy>>
    /\ UNCHANGED besidesCompare

NextCompare == CallCompareTable

SpecCompare == InitCompare /\ [][NextCompare]_vars

-----------------------------------------------------------------------------
(* compareRow on its own: the two rows are drawn, then the call is made.   *)

\* the seed engine and the table diff before any call
SeedIdle ==
    /\ pc = "idle"
    /\ surface = ""
    /\ dialect = "sqlite"
    /\ db = InitialDB({})
    /\ dbBefore = db
    /\ txdb = db
    /\ autocommit = FALSE
    /\ data = DataSet(<<>>)
    /\ parsed = DataSet(<<>>)
    /\ opt = SeedOpt(0, EmptyOps, <<>>, <<>>, <<>>)
    /\ ops = EmptyOps
    /\ pending = {}
    /\ ti = 1
    /\ bi = 0
    /\ pKeys = <<>>
    /\ stmts = <<>>
    /\ calls = <<>>
    /\ err = ""
    /\ committed = FALSE
    /\ faulted = FALSE

CompareIdle == expected = <<>> /\ actual = <<>> /\ strategy = "" /\ result = NoResult

\* a column a row does not have
Absent == [kind |-> "absent", i |-> 0, s |-> <<>>]

\* the columns of a row besides its primary key id, in name order
OtherColumns == <<"email", "name", "quantity">>

\* a token the switch of compareRow has no case for
TokenOther == <<120>>

\* what a dataset may give for a column: a scalar, null, or a one-element sequence
ExpectedValues ==
    {IntVal(1), IntVal(2), nil, SeqVal(TokenNull), SeqNil, SeqVal(TokenNotNull),
     SeqVal(TokenAny), SeqVal(TokenOther), SeqInt(1)}

\* what the database may return for a column
ActualValues == {IntVal(1), IntVal(2), nil}

\* the normalised row of key 1 that has the columns f does not map to Absent
RowWith(f) ==
    LET cols == SelectSeq(OtherColumns, LAMBDA c : f[c] # Absent)
    IN <<Field("id", IntVal(1))>> \o [n \in 1..Len(cols) |-> Field(cols[n], f[cols[n]])]

ExpectedRowInputs ==
    {RowWith(f) : f \in [Range(OtherColumns) -> ExpectedValues \cup {Absent}]}

ActualRowInputs ==
    {RowWith(f) : f \in [Range(OtherColumns) -> ActualValues \cup {Absent}]}

InitRow ==
    /\ SeedIdle /\ CompareIdle
    /\ eRow \in ExpectedRowInputs
    /\ aRow \in ActualRowInputs
    /\ rowDiff = RowDiff(<<>>, "")
    /\ FilterIdle /\ NormalizeIdle /\ ParseIdle /\ AssertIdle /\ ConnIdle /\ PkeyIdle
    /\ PairIdle

\* the call of compareRow that compareTable makes for two rows of equal key
CallCompareRow ==
    /\ rowDiff.Status = ""
    /\ rowDiff' = compareRow(Len(PrimaryKeys("user")), eRow, aRow)
    /\ UNCHANGED <<eRow, aRow>>
    /\ UNCHANGED besidesRow

NextRow == CallCompareRow

SpecRow == InitRow /\ [][NextRow]_vars

-----------------------------------------------------------------------------
(* Properties of Seed.                                                     *)

DataNames == {data.Tables[k].Name : k \in 1..Len(data.Tables)}

TableOf(name) == data.Tables[CHOOSE k \in 1..Len(data.Tables) : data.Tables[k].Name = name]

\* indexes of the rows of a dataset table that pass the tag filter of the call
KeptIdx(t) == {k \in 1..Len(t.Rows) : filter(t.Tags[k], opt.IncludeTags, opt.ExcludeTags)}

\* a dataset row as a database row: null in every column it does not mention
FullRow(name, r) == [c \in ColumnsOf(name) |-> IF c \in DOMAIN r THEN r[c] ELSE nil]

Agrees(p, r) == \A c \in DOMAIN r : p[c] = r[c]

\* the rows Seed sends in one adapter call together with row k
SameBatch(t, k) ==
    {j \in 1..Len(t.Rows) : (j - 1) \div opt.BatchSize = (k - 1) \div opt.BatchSize}

\* Seed has been called: it has replaced a batch size of 0 by the default
Entered == opt.BatchSize > 0

\* Seed returned nil and its transaction was committed
SeedSucceeded == pc = "done" /\ err = "nil" /\ committed

\* a successful Seed whose options give the in-scope dataset table name an
\* operation of set o
Seeded(name, o) ==
    /\ SeedSucceeded
    /\ name \in DataNames
    /\ InScope(opt, name)
    /\ opt.Operations[name] \in o

\* C1: if Seed returns an error at any point, the database holds exactly what it
\* held before the call: no truncate, insert, upsert or delete of it is visible.
C1_ErrorLeavesDatabaseUnchanged == (pc = "done" /\ err = "error") => db = dbBefore

\* C2: after a successful Seed, a table whose operation is clear-insert or unset
\* holds exactly the dataset rows that pass the tag filter, and none of its
\* former rows.
C2_ClearInsert ==
    \A name \in TableNames :
        Seeded(name, {ClearInsertOperation, ""}) =>
            db[name] = {FullRow(name, TableOf(name).Rows[k]) : k \in KeptIdx(TableOf(name))}

C2_ClearInsertWitness ==
    \E name \in TableNames :
        /\ Seeded(name, {ClearInsertOperation, ""})
        /\ KeptIdx(TableOf(name)) # {}
        /\ Cardinality(KeptIdx(TableOf(name))) < Len(TableOf(name).Rows)
        /\ \E r \in dbBefore[name] : r \notin db[name]

C4_Delete ==
    \A name \in TableNames :
        ( /\ pc = "done"
          /\ ~faulted
          /\ DataNames = {name}
          /\ opt.Operations[name] = DeleteOperation
          /\ Len(TableOf(name).Rows) > 0
          /\ KeptIdx(TableOf(name)) = 1..Len(TableOf(name).Rows) )
        => /\ err = "nil"
           /\ db[name] = {p \in dbBefore[name] :
                            \A k \in KeptIdx(TableOf(name)) :
                                PkOf(name, TableOf(name).Rows[k]) # PkOf(name, p)}

\* C5: after a successful Seed with operation insert, the table holds its former
\* rows and one new row per kept dataset row, with the dataset's values in the
\* columns the row mentions and null in those only other rows of its batch
\* mention.
C5_Insert ==
    \A name \in TableNames :
        Seeded(name, {InsertOperation}) =>
            LET t == TableOf(name)
                others(k) == UNION {DOMAIN t.Rows[j] : j \in SameBatch(t, k)} \ DOMAIN t.Rows[k]
            IN /\ dbBefore[name] \subseteq db[name]
               /\ Cardinality(db[name]) =
                    Cardinality(dbBefore[name]) + Cardinality(KeptIdx(t))
               /\ \A k \in KeptIdx(t) :
                    \E p \in db[name] \ dbBefore[name] :
                        /\ Agrees(p, t.Rows[k])
                        /\ \A c \in others(k) : p[c] = nil

C5_InsertWitness ==
    \E name \in TableNames :
        /\ Seeded(name, {InsertOperation})
        /\ dbBefore[name] # {}
        /\ LET t == TableOf(name)
           IN \E k \in KeptIdx(t) :
                UNION {DOMAIN t.Rows[j] : j \in SameBatch(t, k)} # DOMAIN t.Rows[k]

\* positions in stmts of the adapter calls of the given verbs against a table
CallsOn(name, verbs) ==
    {i \in 1..Len(stmts) : stmts[i].table = name /\ stmts[i].verb \in verbs}

Batches(name) ==
    (Len(TableOf(name).Rows) + opt.BatchSize - 1) \div opt.BatchSize

\* the adapter calls operation op allows against a table: the verbs, at most (or,
\* when exact, exactly) one truncate and one call per batch, the truncate first
StatementsOf(name, op, exact) ==
    LET trunc == CallsOn(name, {"truncate", "delete-all"})
        ins == CallsOn(name, {"insert"})
        ups == CallsOn(name, {"upsert"})
        dels == CallsOn(name, {"delete"})
        count(S, n) == IF exact THEN Cardinality(S) = n ELSE Cardinality(S) <= n
    IN CASE op \in {ClearInsertOperation, ""} ->
                /\ count(trunc, 1) /\ count(ins, Batches(name)) /\ ups = {} /\ dels = {}
                /\ \A i \in trunc, j \in ins : i < j
         [] op = TruncateOperation ->
                count(trunc, 1) /\ ins = {} /\ ups = {} /\ dels = {}
         [] op = InsertOperation ->
                trunc = {} /\ count(ins, Batches(name)) /\ ups = {} /\ dels = {}
         [] op = UpsertOperation ->
                trunc = {} /\ ins = {} /\ count(ups, Batches(name)) /\ dels = {}
         [] OTHER ->
                trunc = {} /\ ins = {} /\ ups = {} /\ count(dels, Batches(name))

\* C6: for every in-scope dataset table, Seed issues one truncate and then one
\* insert per batch for clear-insert or unset, one truncate and no insert for
\* truncate (even when the dataset lists rows), only inserts for insert, only
\* upserts for upsert, only deletes for delete.
C6_StatementsPerOperation ==
    \A name \in TableNames :
        (Entered /\ name \in DataNames /\ InScope(opt, name)) =>
            /\ StatementsOf(name, opt.Operations[name], FALSE)
            /\ (pc = "done" /\ err = "nil") => StatementsOf(name, opt.Operations[name], TRUE)

C6_StatementsPerOperationWitness ==
    /\ pc = "done" /\ err = "nil"
    /\ \E name \in DataNames :
        /\ opt.Operations[name] = ClearInsertOperation
        /\ Batches(name) > 1
        /\ Cardinality(CallsOn(name, {"insert"})) = Batches(name)

\* C7: when TargetTables is not empty, Seed issues no truncate, insert, upsert or
\* delete against a table it does not list, whatever operation that table is
\* given; every such table holds the rows it held before the call.
C7_TargetScoping ==
    (Entered /\ Len(opt.TargetTables) > 0) =>
        /\ \A i \in 1..Len(stmts) : stmts[i].table \in Range(opt.TargetTables)
        /\ \A name \in TableNames \ Range(opt.TargetTables) : db[name] = dbBefore[name]

\* the caller gave no operation of its own for the table
NoOverride(name) ==
    \/ opt.Operations[name] = ""
    \/ surface = "cli" /\ opt.Operations[name] = data.Operation[name]

\* C8: on every surface, a table for which the caller gives no override is
\* seeded with the operation the dataset's _operation key declares for it.
C8_DatasetOperationApplied ==
    \A name \in TableNames :
        ( /\ pc = "done" /\ err = "nil"
          /\ name \in DataNames
          /\ data.Operation[name] # ""
          /\ NoOverride(name) )
        => StatementsOf(name, data.Operation[name], TRUE)

DataVerbs == {"insert", "upsert", "delete"}

TruncateVerbs == {"truncate", "delete-all"}

TableIndex(name) == CHOOSE k \in 1..Len(data.Tables) : data.Tables[k].Name = name

\* the columns whose values the adapter call at position i of stmts was given
StmtColumns(i) ==
    IF stmts[i].verb = "delete" THEN PrimaryKeys(stmts[i].table) ELSE stmts[i].columns

\* the values of the kept rows lo..hi of a dataset table in the given columns
RECURSIVE RowValues(_, _, _, _)
RowValues(t, lo, hi, cols) ==
    IF lo > hi THEN <<>>
    ELSE (IF lo \in KeptIdx(t)
          THEN [c \in 1..Len(cols) |->
                    IF cols[c] \in DOMAIN t.Rows[lo] THEN t.Rows[lo][cols[c]] ELSE nil]
          ELSE <<>>) \o RowValues(t, lo + 1, hi, cols)

\* C21: within one Seed every truncate statement precedes the first insert,
\* upsert or delete statement; the data statements follow the order of the
\* dataset's tables; and of two data statements on one table the earlier
\* carries rows that precede the rows of the later.
C21_SeedOrdering ==
    \A i, j \in 1..Len(stmts) :
        i < j =>
            /\ stmts[j].verb \in TruncateVerbs => stmts[i].verb \in TruncateVerbs
            /\ (stmts[i].verb \in DataVerbs /\ stmts[j].verb \in DataVerbs) =>
                /\ TableIndex(stmts[i].table) <= TableIndex(stmts[j].table)
                /\ stmts[i].table = stmts[j].table =>
                    LET t == TableOf(stmts[i].table)
                    IN \E lo, m, n, hi \in 1..Len(t.Rows) :
                        /\ lo <= m /\ m < n /\ n <= hi
                        /\ stmts[i].args = RowValues(t, lo, m, StmtColumns(i))
                        /\ stmts[j].args = RowValues(t, n, hi, StmtColumns(j))

C21_SeedOrderingWitness ==
    /\ SeedSucceeded
    /\ \E i, j, k \in 1..Len(stmts) :
        /\ i < j /\ j < k
        /\ stmts[i].verb \in TruncateVerbs
        /\ stmts[j].verb \in DataVerbs /\ stmts[k].verb \in DataVerbs
        /\ stmts[j].table # stmts[k].table
    /\ \E name \in DataNames : Len(TableOf(name).Rows) > 0

\* the positions in stmts of the data statements on a table, in order
DataCalls(name) == SortedSeq(CallsOn(name, DataVerbs))

\* C22: for a table of n rows and batch size b (the default 50 for 0) the data
\* phase issues at most ceil(n/b) statements, and exactly that many when Seed
\* returns nil; the k-th covers the rows (k-1)*b+1 .. min(k*b, n) in row
\* order, so that every kept row is carried by one statement and none twice.
C22_Batching ==
    \A name \in TableNames :
        (Entered /\ name \in DataNames) =>
            LET t == TableOf(name)
                b == opt.BatchSize
                at == DataCalls(name)
            IN /\ Len(at) <= Batches(name)
               /\ \A k \in 1..Len(at) :
                    stmts[at[k]].args =
                        RowValues(t, (k - 1) * b + 1, Min(k * b, Len(t.Rows)), StmtColumns(at[k]))
               /\ ( /\ pc = "done" /\ err = "nil"
                    /\ InScope(opt, name)
                    /\ opt.Operations[name] # TruncateOperation )
                  => Len(at) = Batches(name)

C22_BatchingWitness ==
    /\ SeedSucceeded
    /\ \E name \in DataNames :
        /\ opt.BatchSize < Len(TableOf(name).Rows)
        /\ Len(DataCalls(name)) = Batches(name)
        /\ \A k \in 1..Len(DataCalls(name)) : stmts[DataCalls(name)[k]].args # <<>>

\* C23: for every operation Seed performs on a table the callback is invoked
\* twice with that table and task, first with start = true and a nil error,
\* then with start = false and the error of the operation, nil iff the
\* operation succeeded, and no other invocation falls between the two.
C23_ProgressCallback ==
    (pc = "done" /\ err \in {"nil", "error"}) =>
        /\ Len(calls) % 2 = 0
        /\ \A n \in 1..Len(calls) :
            IF n % 2 = 1
            THEN calls[n].start /\ calls[n].err = "nil"
            ELSE /\ ~calls[n].start
                 /\ calls[n].table = calls[n - 1].table
                 /\ calls[n].task = calls[n - 1].task
                 /\ calls[n].err = IF err = "error" /\ n = Len(calls) THEN "error" ELSE "nil"
        /\ \A n, m \in 1..Len(calls) :
            (n < m /\ calls[n].start /\ calls[m].start)
                => (calls[n].table # calls[m].table \/ calls[n].task # calls[m].task)

\* C27: once ParseYAML has returned it, no Seed and no seed run of the CLI,
\* with or without --truncate flags, changes the DataSet's operations map,
\* match map, tables, rows or tags.
C27_DataSetImmutable == pc # "idle" => data = parsed

\* C28: Seed returns nil only when its transaction was committed; when the
\* commit fails Seed returns an error and the database is as it was before.
C28_CommitFailureReported ==
    /\ (pc = "done" /\ err = "nil") => committed
    /\ (pc = "done" /\ ~committed) => db = dbBefore

\* C30: every insert, upsert and delete call Seed makes carries at least one
\* row and at least one column; when the tag filter rejects every row of the
\* dataset no data statement is issued and, the driver failing nowhere, Seed
\* returns nil.
C30_NoEmptyStatement ==
    /\ \A i \in 1..Len(stmts) :
            stmts[i].verb \in DataVerbs
                => (Len(stmts[i].args) > 0 /\ Len(StmtColumns(i)) > 0)
    /\ (/\ pc = "done"
        /\ ~faulted
        /\ surface # "cli"
        /\ \A k \in 1..Len(data.Tables) : KeptIdx(data.Tables[k]) = {})
            => (err = "nil" /\ \A i \in 1..Len(stmts) : stmts[i].verb \notin DataVerbs)

-----------------------------------------------------------------------------
(* Properties of compareTable.                                             *)

\* compareTable has returned
Compared == result.Status # ""

\* the primary-key value of a normalised row of a table with one integer key
PkValue(row) == row[1].Value.i

KeySet(rows) == {PkValue(rows[k]) : k \in 1..Len(rows)}

RowOf(rows, key) == rows[CHOOSE k \in 1..Len(rows) : PkValue(rows[k]) = key]

\* one row per key of the union of the two key sets, in ascending key order
UnionDiff(e, a) ==
    LET keys == SortedSeq(KeySet(e) \cup KeySet(a))
    IN [n \in 1..Len(keys) |->
            IF keys[n] \in KeySet(e) /\ keys[n] \in KeySet(a)
            THEN compareRow(1, RowOf(e, keys[n]), RowOf(a, keys[n]))
            ELSE IF keys[n] \in KeySet(e)
            THEN OnlyRow(RowOf(e, keys[n]), OnlyOnExpect)
            ELSE OnlyRow(RowOf(a, keys[n]), OnlyOnActual)]

\* C9: under the exact strategy, for rows sorted by unique primary keys,
\* compareTable emits exactly one row per key of the union of the two key sets,
\* in ascending key order: the compareRow result for a key of both, an
\* only-expected row, an only-actual row; two identical tables yield only
\* Match rows.
C9_ExactDiff ==
    (Compared /\ strategy = ExactMatchStrategy) =>
        /\ result.Rows = UnionDiff(expected, actual)
        /\ expected = actual =>
                \A n \in 1..Len(result.Rows) : result.Rows[n].Status = Match

\* every expected row has an actual row of its key whose fields match
Covered ==
    \A k \in 1..Len(expected) :
        /\ PkValue(expected[k]) \in KeySet(actual)
        /\ compareRow(1, expected[k], RowOf(actual, PkValue(expected[k]))).Status = Match

\* C10: when every expected row has an actual row of its key with matching
\* fields, compareTable returns Match under the sub strategy however many other
\* rows the actual table has and wherever their keys fall, and emits none of
\* them; under the exact strategy it returns NotMatch with one only-actual row
\* per other key.
C10_SubIgnoresActualOnly ==
    (Compared /\ Covered) =>
        /\ strategy = SubMatchStrategy =>
            /\ result.Status = Match
            /\ Len(result.Rows) = Len(expected)
        /\ (strategy = ExactMatchStrategy /\ KeySet(actual) # KeySet(expected)) =>
            /\ result.Status = NotMatch
            /\ Cardinality({n \in 1..Len(result.Rows) : result.Rows[n].Status = OnlyOnActual})
                  = Cardinality(KeySet(actual) \ KeySet(expected))

-----------------------------------------------------------------------------
(* filter applied to drawn tag lists.                                      *)

MaxTags == 2

TagNames == {"x", "y", "z"}

TagLists == UNION {[1..m -> TagNames] : m \in 0..MaxTags}

InitFilter ==
    /\ SeedIdle /\ CompareIdle /\ RowIdle
    /\ rowTags \in TagLists
    /\ includeSet \in TagLists
    /\ excludeSet \in TagLists
    /\ accepted = ""
    /\ NormalizeIdle /\ ParseIdle /\ AssertIdle /\ ConnIdle /\ PkeyIdle
    /\ PairIdle

CallFilter ==
    /\ accepted = ""
    /\ accepted' = IF filter(rowTags, includeSet, excludeSet) THEN "true" ELSE "false"
    /\ UNCHANGED <<rowTags, includeSet, excludeSet>>
    /\ UNCHANGED besidesFilter

NextFilter == CallFilter

SpecFilter == InitFilter /\ [][NextFilter]_vars

-----------------------------------------------------------------------------
(* Table.SortAndFilter applied to drawn tables.                            *)

\* the outcome of mapToValues: the row, or the primary keys the map lacks
Mapped(row, missingPKeys) ==
    [err |-> Len(missingPKeys) > 0, row |-> row, MissingKeys |-> missingPKeys]

\* a row mapping that reports only the first primary key the map lacks
mapToValuesFirstMissing(m, pks) ==
    LET missingPKeys == SelectSeq(pks, LAMBDA k : k \notin DOMAIN m)
        keys == SelectSeq(SortedColumns(DOMAIN m), LAMBDA k : k \notin Range(pks))
    IN IF Len(missingPKeys) > 0
       THEN Mapped(<<>>, <<missingPKeys[1]>>)
       ELSE Mapped([n \in 1..Len(pks) |-> Field(pks[n], m[pks[n]])]
                   \o [n \in 1..Len(keys) |-> Field(keys[n], m[keys[n]])], <<>>)

mapToValues(m, pks) ==
    LET missingPKeys == SelectSeq(pks, LAMBDA k : k \notin DOMAIN m)
        keys == SelectSeq(SortedColumns(DOMAIN m), LAMBDA k : k \notin Range(pks))
    IN IF Len(missingPKeys) > 0
       THEN Mapped(<<>>, missingPKeys)
       ELSE Mapped([n \in 1..Len(pks) |-> Field(pks[n], m[pks[n]])]
                   \o [n \in 1..Len(keys) |-> Field(keys[n], m[keys[n]])], <<>>)

\* the comparison function sortRow hands to slices.SortFunc
sortRowCmp(sortKeys, ri, rj) ==
    LET RECURSIVE From(_)
        From(i) == IF i > Len(sortKeys) THEN 0
                   ELSE IF comparePkeyValue(ri[i].Value, rj[i].Value) # 0
                        THEN comparePkeyValue(ri[i].Value, rj[i].Value)
                        ELSE From(i + 1)
    IN From(1)

\* slices.SortFunc on at most twelve rows: an insertion sort that moves a row
\* down while the comparison with its predecessor is negative
sortRow(unsorted, sortKeys) ==
    LET RECURSIVE Down(_, _)
        Down(dat, j) ==
            IF j > 1 /\ sortRowCmp(sortKeys, dat[j], dat[j - 1]) < 0
            THEN Down([dat EXCEPT ![j] = dat[j - 1], ![j - 1] = dat[j]], j - 1)
            ELSE dat
        RECURSIVE Upto(_, _)
        Upto(dat, i) == IF i > Len(dat) THEN dat ELSE Upto(Down(dat, i), i + 1)
    IN Upto(unsorted, 2)

SortAndFilter(tbl, pks, includeTags, excludeTags) ==
    LET sortedKeys == SortedColumns(Range(pks))
        kept == SelectSeq([i \in 1..Len(tbl.Rows) |-> i],
                          LAMBDA i : filter(tbl.Tags[i], includeTags, excludeTags))
        mapped == [n \in 1..Len(kept) |-> mapToValues(tbl.Rows[kept[n]], sortedKeys)]
        errs == SelectSeq(mapped, LAMBDA x : x.err)
        good == SelectSeq(mapped, LAMBDA x : ~x.err)
    IN IF Len(errs) > 0
       THEN [state |-> "error", Rows |-> <<>>,
             missing |-> [n \in 1..Len(errs) |-> errs[n].MissingKeys]]
       ELSE [state |-> "ok",
             Rows |-> sortRow([n \in 1..Len(good) |-> good[n].row], sortedKeys),
             missing |-> <<>>]

\* the primary keys as a caller passes them: in any order
PrimaryKeyInputs == {<<"id">>, <<"order_id", "product_id">>, <<"product_id", "order_id">>}

KeyValues == {2, 10}

\* rows of a dataset table: complete, with other columns, or lacking keys
RawRows(pks) ==
    IF pks = <<"id">>
    THEN {[id |-> IntVal(k)] : k \in KeyValues}
         \cup {[id |-> IntVal(k), email |-> IntVal(5)] : k \in KeyValues}
         \cup {[name |-> IntVal(7), id |-> IntVal(k), email |-> nil] : k \in KeyValues}
         \cup {[email |-> IntVal(5)]}
    ELSE {[order_id |-> IntVal(2), product_id |-> IntVal(k)] : k \in KeyValues}
         \cup {[order_id |-> IntVal(k), product_id |-> IntVal(2), quantity |-> IntVal(5)] :
                    k \in KeyValues}
         \cup {[product_id |-> IntVal(2)], [quantity |-> IntVal(5)]}

RawTables(pks) ==
    UNION {{[Name |-> IF pks = <<"id">> THEN "user" ELSE "orders", Rows |-> r, Tags |-> g] :
                r \in [1..m -> RawRows(pks)], g \in [1..m -> {<<>>, <<"x">>}]} :
            m \in 0..MaxRows}

InitNormalize ==
    /\ SeedIdle /\ CompareIdle /\ RowIdle /\ FilterIdle
    /\ primaryKeys \in PrimaryKeyInputs
    /\ rawTable \in RawTables(primaryKeys)
    /\ tagFilter \in TagOptions
    /\ normalized = [state |-> "", Rows |-> <<>>, missing |-> <<>>]
    /\ ParseIdle /\ AssertIdle /\ ConnIdle /\ PkeyIdle
    /\ PairIdle

\* slices.Sort(primaryKeys) sorts the caller's slice in place
CallSortAndFilter ==
    /\ normalized.state = ""
    /\ normalized' = SortAndFilter(rawTable, primaryKeys, tagFilter[1], tagFilter[2])
    /\ primaryKeys' = SortedColumns(Range(primaryKeys))
    /\ UNCHANGED <<rawTable, tagFilter>>
    /\ UNCHANGED besidesNormalize

NextNormalize == CallSortAndFilter

SpecNormalize == InitNormalize /\ [][NextNormalize]_vars

-----------------------------------------------------------------------------
(* Assert: two successive calls on one dataset and one database content.   *)

MaxCalls == 2

\* the orders in which a SELECT without ORDER BY may return the rows of a table
Orders(S) == {q \in [1..Cardinality(S) -> S] : Range(q) = S}

\* fetchTableData without a driver error: every row through mapToValues, then sortRow
fetchTableData(name, selected) ==
    sortRow([n \in 1..Len(selected) |-> mapToValues(selected[n], PrimaryKeys(name)).row],
            PrimaryKeys(name))

AssertTableResult(name, r) == [Name |-> name, Status |-> r.Status, Rows |-> r.Rows]

\* a return that hands out the results next to the joined error
AssertOutcomeKeepingResults(run) ==
    IF Len(run.errs) > 0
    THEN [ok |-> FALSE, results |-> run.results, err |-> run.errs, failed |-> run.failed,
          diffs |-> run.diffs]
    ELSE [ok |-> run.ok, results |-> run.results, err |-> <<>>, failed |-> run.failed,
          diffs |-> run.diffs]

\* a return that lists the results from the last table to the first
AssertOutcomeReversed(run) ==
    IF Len(run.errs) > 0
    THEN [ok |-> FALSE, results |-> <<>>, err |-> run.errs, failed |-> run.failed,
          diffs |-> run.diffs]
    ELSE [ok |-> run.ok,
          results |-> [n \in 1..Len(run.results) |-> run.results[Len(run.results) + 1 - n]],
          err |-> <<>>, failed |-> run.failed, diffs |-> run.diffs]

\* what Assert returns after the loop; failed is the set of tables whose fetch
\* the driver failed during the call, diffs what opt.DiffCallback was given
AssertOutcome(run) ==
    IF Len(run.errs) > 0
    THEN [ok |-> FALSE, results |-> <<>>, err |-> run.errs, failed |-> run.failed,
          diffs |-> run.diffs]
    ELSE [ok |-> run.ok, results |-> run.results, err |-> <<>>, failed |-> run.failed,
          diffs |-> run.diffs]

\* expected rows of the table user: plain, with placeholders, with a
\* one-element sequence the switch does not know, without the primary key
AssertRows(t) ==
    IF t = "user"
    THEN {[id |-> IntVal(2)], [id |-> IntVal(10)],
          [id |-> IntVal(2), email |-> IntVal(5)],
          [id |-> IntVal(2), email |-> SeqVal(TokenNotNull)],
          [id |-> IntVal(2), email |-> SeqVal(TokenOther)],
          [id |-> IntVal(2), email |-> SeqInt(1)],
          [email |-> IntVal(5)]}
    ELSE {[order_id |-> IntVal(2), product_id |-> IntVal(2)],
          [order_id |-> IntVal(2), product_id |-> IntVal(2), quantity |-> IntVal(6)],
          [product_id |-> IntVal(2)]}

AssertTables(t) ==
    {Table(t, r) : r \in UNION {[1..m -> AssertRows(t)] :
                                    m \in 0..(IF t = "user" THEN MaxRows ELSE 1)}}

\* the rows of the database: the user rows of any keys among 2 and 10, one orders row
StoredRows(t, keys) ==
    IF t = "user"
    THEN {[email |-> IntVal(5), id |-> IntVal(k), name |-> nil] : k \in keys}
    ELSE {[order_id |-> IntVal(2), product_id |-> IntVal(2), quantity |-> IntVal(5)]}

AssertInputs ==
    {[Tables |-> tables, Match |-> [EmptyOps EXCEPT !["user"] = m],
      TargetTables |-> target, IncludeTags |-> tags[1], ExcludeTags |-> tags[2],
      content |-> [t \in TableNames |-> StoredRows(t, keys)]] :
        tables \in {<<u>> : u \in AssertTables("user")}
                   \cup {<<u, o>> : u \in AssertTables("user"), o \in AssertTables("orders")}
                   \cup {<<o, u>> : u \in AssertTables("user"), o \in AssertTables("orders")},
        m \in {"", SubMatchStrategy},
        target \in {<<>>, <<"user">>},
        tags \in {<<<<>>, <<>>>>, <<<<>>, <<"x">>>>},
        keys \in {{2}, {2, 10}}}

InitAssert ==
    /\ SeedIdle /\ CompareIdle /\ RowIdle /\ FilterIdle /\ NormalizeIdle /\ ParseIdle
    /\ apc = "idle"
    /\ assertIn \in AssertInputs
    /\ assertRun = NoRun
    /\ returns = <<>>
    /\ ConnIdle /\ PkeyIdle
    /\ PairIdle

AssertEnter ==
    /\ apc = "idle"
    /\ Len(returns) < MaxCalls
    /\ apc' = "loop"
    /\ assertRun' = [NoRun EXCEPT !.ti = 1]
    /\ UNCHANGED <<assertIn, returns>>
    /\ UNCHANGED besidesAssert

AssertAt(n) == apc = "loop" /\ assertRun.ti = n /\ n <= Len(assertIn.Tables)

\* a table outside opt.TargetTables: continue
AssertSkip ==
    /\ AssertAt(assertRun.ti)
    /\ ~InScope(assertIn, assertIn.Tables[assertRun.ti].Name)
    /\ assertRun' = [assertRun EXCEPT !.ti = @ + 1]
    /\ UNCHANGED <<apc, assertIn, returns>>
    /\ UNCHANGED besidesAssert

\* the primary-key lookup or the query fails in the driver: the error is kept
\* and the loop continues
AssertFetchFails ==
    /\ AssertAt(assertRun.ti)
    /\ InScope(assertIn, assertIn.Tables[assertRun.ti].Name)
    /\ assertRun' = [assertRun EXCEPT
            !.ti = @ + 1,
            !.errs = Append(@, [table |-> assertIn.Tables[assertRun.ti].Name, step |-> "fetch"]),
            !.failed = @ \cup {assertIn.Tables[assertRun.ti].Name}]
    /\ UNCHANGED <<apc, assertIn, returns>>
    /\ UNCHANGED besidesAssert

\* one pass of the loop for a table in scope whose rows the query returns in
\* some order: fetchTableData, SortAndFilter, compareTable; a panic of
\* compareRow is not recovered and ends the process
AssertTable ==
    /\ AssertAt(assertRun.ti)
    /\ InScope(assertIn, assertIn.Tables[assertRun.ti].Name)
    /\ \E selected \in Orders(assertIn.content[assertIn.Tables[assertRun.ti].Name]) :
        LET tbl == assertIn.Tables[assertRun.ti]
            strat == IF assertIn.Match[tbl.Name] # "" THEN assertIn.Match[tbl.Name]
                     ELSE ExactMatchStrategy
            sortKeys == PrimaryKeys(tbl.Name)
            fetched == fetchTableData(tbl.Name, selected)
            norm == SortAndFilter(tbl, sortKeys, assertIn.IncludeTags, assertIn.ExcludeTags)
            r == compareTable(strat, Len(sortKeys), norm.Rows, fetched)
        IN IF norm.state = "error"
           THEN /\ assertRun' = [assertRun EXCEPT
                        !.ti = @ + 1,
                        !.errs = Append(@, [table |-> tbl.Name, step |-> "normalize"])]
                /\ apc' = apc
           ELSE IF r.Status = "panic"
           THEN /\ apc' = "panicked"
                /\ assertRun' = assertRun
           ELSE /\ assertRun' = [assertRun EXCEPT
                        !.ti = @ + 1,
                        !.results = Append(@, AssertTableResult(tbl.Name, r)),
                        !.diffs = Append(@, AssertTableResult(tbl.Name, r)),
                        !.ok = IF r.Status = NotMatch THEN FALSE ELSE @]
                /\ apc' = apc
    /\ UNCHANGED <<assertIn, returns>>
    /\ UNCHANGED besidesAssert

AssertReturn ==
    /\ apc = "loop"
    /\ assertRun.ti > Len(assertIn.Tables)
    /\ returns' = Append(returns, AssertOutcome(assertRun))
    /\ apc' = "idle"
    /\ assertRun' = NoRun
    /\ UNCHANGED assertIn
    /\ UNCHANGED besidesAssert

NextAssert ==
    \/ AssertEnter
    \/ AssertSkip
    \/ AssertFetchFails
    \/ AssertTable
    \/ AssertReturn

SpecAssert == InitAssert /\ [][NextAssert]_vars

-----------------------------------------------------------------------------
(* ParseYAML: successive parses of one document.                           *)

MaxParses == 2

\* top-level keys a document may hold
DocumentKeys == {"_match", "_operation", "orders", "product", "user"}

\* documents: every sequence of distinct top-level keys
Documents ==
    UNION {{q \in [1..m -> DocumentKeys] : \A i, j \in 1..m : i # j => q[i] # q[j]} :
            m \in 0..Cardinality(DocumentKeys)}

\* dataSet.UnmarshalYAML: the document is decoded into a Go map, the loop
\* visits the keys of the map in the order visited and appends a Table for
\* every key that is neither _operation nor _match
UnmarshalYAML(visited) == SelectSeq(visited, LAMBDA k : k \notin {"_operation", "_match"})

InitParse ==
    /\ SeedIdle /\ CompareIdle /\ RowIdle /\ FilterIdle /\ NormalizeIdle
    /\ document \in Documents
    /\ parses = <<>>
    /\ AssertIdle /\ ConnIdle /\ PkeyIdle
    /\ PairIdle

\* Go visits the keys of a map in an order of its choosing, anew on every range
ParseYAML ==
    /\ Len(parses) < MaxParses
    /\ \E visited \in Orders(Range(document)) :
        parses' = Append(parses, UnmarshalYAML(visited))
    /\ UNCHANGED document
    /\ UNCHANGED besidesParse

NextParse == ParseYAML

SpecParse == InitParse /\ [][NextParse]_vars

-----------------------------------------------------------------------------
(* NewDBConnector, the goroutine it starts, the context and the caller.    *)

MaxQueries == 8

\* the prefixes of the source strings a caller may pass
Sources == {"mysql://", "sqlite://", "sqlite3://", "postgres://", "oracle://"}

\* the adapter NewDBConnector selects by the prefix of source, "" for none
ConnectorOf(src) ==
    CASE src = "mysql://" -> "mysql"
      [] src \in {"sqlite://", "sqlite3://"} -> "sqlite"
      [] src = "postgres://" -> "postgres"
      [] OTHER -> ""

\* a constructor that starts no goroutine for SQLite
WatchedExceptSQLite(kind) == kind \in {"mysql", "postgres"}

\* the branches of NewDBConnector that start the goroutine closing the handle
Watched(kind) == kind \in {"mysql", "sqlite", "postgres"}

InitConn ==
    /\ SeedIdle /\ CompareIdle /\ RowIdle /\ FilterIdle /\ NormalizeIdle /\ ParseIdle
    /\ AssertIdle /\ PkeyIdle
    /\ PairIdle
    /\ cpc = "idle"
    /\ \E src \in Sources, done \in BOOLEAN :
        conn = [NoConn EXCEPT !.source = src, !.cancelled = done]

\* NewDBConnector: sql.Open, the goroutine, the adapter; an error without a
\* handle for an unknown prefix or when sql.Open fails
NewDBConnector ==
    /\ cpc = "idle"
    /\ conn.kind = ""
    /\ \E fail \in BOOLEAN :
        IF ConnectorOf(conn.source) = "" \/ fail
        THEN /\ conn' = [conn EXCEPT !.kind = "error"]
             /\ cpc' = cpc
        ELSE /\ conn' = [conn EXCEPT !.kind = ConnectorOf(conn.source), !.open = TRUE]
             /\ cpc' = IF Watched(ConnectorOf(conn.source)) THEN "waiting" ELSE "none"
    /\ UNCHANGED besidesConn

\* the owner of the context cancels it
Cancel ==
    /\ ~conn.cancelled
    /\ conn' = [conn EXCEPT !.cancelled = TRUE]
    /\ UNCHANGED cpc
    /\ UNCHANGED besidesConn

\* the caller runs a statement through DB()
Query ==
    /\ conn.open
    /\ conn.queries < MaxQueries
    /\ conn' = [conn EXCEPT !.queries = @ + 1]
    /\ UNCHANGED cpc
    /\ UNCHANGED besidesConn

\* the goroutine: <-ctx.Done() returns once the context is cancelled
WatcherDone ==
    /\ cpc = "waiting"
    /\ conn.cancelled
    /\ cpc' = "closing"
    /\ UNCHANGED conn
    /\ UNCHANGED besidesConn

\* the goroutine: db.Close()
WatcherClose ==
    /\ cpc = "closing"
    /\ conn' = [conn EXCEPT !.open = FALSE]
    /\ cpc' = "exited"
    /\ UNCHANGED besidesConn

NextConn ==
    \/ NewDBConnector
    \/ Cancel
    \/ Query
    \/ WatcherDone
    \/ WatcherClose

\* a goroutine that can run is run by the scheduler
SpecConn ==
    InitConn /\ [][NextConn]_vars /\ WF_vars(WatcherDone) /\ WF_vars(WatcherClose)

\* C25: for every strategy and every pair of row sequences the status
\* compareTable returns is Match iff every row of the result's Rows has status
\* Match, and NotMatch otherwise; an empty Rows list gives Match.
C25_TableStatus ==
    Compared =>
        /\ result.Status \in {Match, NotMatch}
        /\ result.Status = Match <=>
                \A n \in 1..Len(result.Rows) : result.Rows[n].Status = Match

C25_TableStatusWitness ==
    /\ Compared
    /\ strategy = SubMatchStrategy
    /\ result.Status = NotMatch
    /\ Len(actual) > Len(expected)
    /\ \E n \in 1..Len(result.Rows) : result.Rows[n].Status = NotMatch
    /\ \E n \in 1..Len(result.Rows) : result.Rows[n].Status = Match
    /\ \A n \in 1..Len(result.Rows) : result.Rows[n].Status # OnlyOnExpect

-----------------------------------------------------------------------------
(* comparePkey and the comparison function of sortRow on drawn keys.       *)

\* primary-key values: integers of one and two digits and below zero,
\* strings, and null
KeyInputs ==
    {IntVal(n) : n \in {-2, -1, 2, 9, 10}}
    \cup {StrVal(x) : x \in {<<49, 48>>, <<57>>, <<97>>, <<97, 98>>}}
    \cup {nil}

InitPkey ==
    /\ SeedIdle /\ CompareIdle /\ RowIdle /\ FilterIdle /\ NormalizeIdle /\ ParseIdle
    /\ AssertIdle /\ ConnIdle /\ PairIdle
    /\ keyA \in {<<Field("id", v)>> : v \in KeyInputs}
    /\ keyB \in {<<Field("id", v)>> : v \in KeyInputs}
    /\ cmpOut = <<>>

\* compareTable compares an expected key with an actual one, sortRow two rows
\* of one table, in either order of the arguments
CallComparePkey ==
    /\ cmpOut = <<>>
    /\ cmpOut' = <<comparePkey(1, keyA, keyB), comparePkey(1, keyB, keyA),
                   sortRowCmp(<<"id">>, keyA, keyB), sortRowCmp(<<"id">>, keyB, keyA)>>
    /\ UNCHANGED <<keyA, keyB>>
    /\ UNCHANGED besidesPkey

NextPkey == CallComparePkey

SpecPkey == InitPkey /\ [][NextPkey]_vars

-----------------------------------------------------------------------------
(* Seed of one dataset table, run twice from the same database with two    *)
(* batch sizes.  The table is student_course_enrollments of the fixtures,   *)
(* which has two columns besides its primary key.                           *)

MaxPairRows == 2     \* rows of the dataset table
MaxPairBatch == 2    \* largest of the batch sizes

Enrollments == "student_course_enrollments"

\* dataset rows: the key of a student in course 1 or 2, with or without each
\* of the other two columns
EnrollmentUniverse ==
    LET key(c) == [student_id |-> IntVal(1), course_id |-> IntVal(c)]
        With(r, col, v) == [k \in DOMAIN r \cup {col} |-> IF k = col THEN v ELSE r[k]]
    IN UNION {{key(c), With(key(c), "enrollment_date", IntVal(7)),
               With(key(c), "grade", IntVal(8)),
               With(With(key(c), "enrollment_date", IntVal(7)), "grade", IntVal(8))}
              : c \in {1, 2}}

\* the table before Seed: empty, or the enrollment of the student in course 1
EnrollmentFixtures ==
    {{}, {[student_id |-> IntVal(1), course_id |-> IntVal(1),
           enrollment_date |-> IntVal(5), grade |-> IntVal(6)]}}

\* the batch loop of processInsertOperation / processDeleteOperation from row
\* offset i on: it returns at the first adapter call that fails
RECURSIVE processOperation(_, _, _, _, _, _, _)
processOperation(d, rows, task, t, o, pkeys, i) ==
    IF i >= Len(t.Rows) THEN Outcome(TRUE, rows)
    ELSE IF BatchPanics(task, t, o, i, pkeys) THEN Outcome(FALSE, rows)
    ELSE LET out == Exec(d, rows, BatchStmt(d, task, t, o, i, pkeys))
         IN IF ~out.ok THEN out
            ELSE processOperation(d, out.rows, task, t, o, pkeys, i + o.BatchSize)

\* Seed on a dataset of the one table t, every driver call working as the
\* database decides: the truncate loop, then the data loop
SeedOfTable(d, rows, t, o) ==
    LET cleared == IF o.Operations[t.Name] \in {ClearInsertOperation, "", TruncateOperation}
                   THEN {} ELSE rows
        task == TaskOf(o, t.Name)
    IN IF task = "" THEN Outcome(TRUE, cleared)
       ELSE processOperation(d, cleared, task, t, o, PrimaryKeys(t.Name), 0)

PairInputs ==
    {[dialect |-> d, operation |-> op, before |-> f, small |-> b1, large |-> b2,
      table |-> [Name |-> Enrollments, Rows |-> rows,
                 Tags |-> [k \in 1..Len(rows) |-> <<>>]]] :
        d \in {"postgres", "mysql", "sqlite"},
        op \in {ClearInsertOperation, InsertOperation, UpsertOperation, DeleteOperation,
                TruncateOperation},
        f \in EnrollmentFixtures,
        b1 \in 1..MaxPairBatch, b2 \in 1..MaxPairBatch,
        rows \in UNION {[1..m -> EnrollmentUniverse] : m \in 0..MaxPairRows}}

InitPair ==
    /\ SeedIdle /\ CompareIdle /\ RowIdle /\ FilterIdle /\ NormalizeIdle /\ ParseIdle
    /\ AssertIdle /\ ConnIdle /\ PkeyIdle
    /\ seedIn \in {in \in PairInputs : in.small < in.large}
    /\ seedOut = <<>>

\* the same Seed call with the smaller and with the larger batch size
PairOpt(b) ==
    SeedOpt(b, [t \in {Enrollments} |-> seedIn.operation], <<>>, <<>>, <<>>)

CallSeedTwice ==
    /\ seedOut = <<>>
    /\ seedOut' = <<SeedOfTable(seedIn.dialect, seedIn.before, seedIn.table,
                                PairOpt(seedIn.small)),
                    SeedOfTable(seedIn.dialect, seedIn.before, seedIn.table,
                                PairOpt(seedIn.large))>>
    /\ UNCHANGED seedIn
    /\ UNCHANGED besidesPair

NextPair == CallSeedTwice

SpecPair == InitPair /\ [][NextPair]_vars

-----------------------------------------------------------------------------
(* Properties of compareRow.                                               *)

\* an expected value that is a one-element sequence
IsSequence(v) == v.kind \in {"seq", "seqnil", "seqint"}

\* the actual row has the column among the fields after its primary key
ActualHas(key) == \E n \in 2..Len(aRow) : aRow[n].Key = key

ActualAt(key) == aRow[CHOOSE n \in 2..Len(aRow) : aRow[n].Key = key].Value

\* C11: compareRow emits the primary-key field as Match, then one diff per
\* other expected field in name order: Match or NotMatch by comparison with the
\* actual value when the actual row has the column, WrongDataSet when it has
\* not; a column only the actual row has is not emitted and does not change the
\* status; the row is Match iff every emitted diff is Match.
C11_RowDiff ==
    rowDiff.Status \notin {"", "panic"} =>
        /\ Len(rowDiff.Fields) = Len(eRow)
        /\ \A n \in 1..Len(eRow) :
            LET d == rowDiff.Fields[n]
                e == eRow[n]
            IN /\ d.Key = e.Key
               /\ d.Expect = e.Value
               /\ n = 1 => (d.Status = Match /\ d.Actual = aRow[1].Value)
               /\ (n > 1 /\ ~ActualHas(e.Key)) => d.Status = WrongDataSet
               /\ (n > 1 /\ ActualHas(e.Key)) =>
                    /\ d.Actual = ActualAt(e.Key)
                    /\ d.Status \in {Match, NotMatch}
                    /\ ~IsSequence(e.Value) => (d.Status = Match <=> e.Value = ActualAt(e.Key))
        /\ rowDiff.Status \in {Match, NotMatch}
        /\ rowDiff.Status = Match <=>
                \A n \in 1..Len(rowDiff.Fields) : rowDiff.Fields[n].Status = Match

C11_RowDiffWitness ==
    /\ rowDiff.Status = NotMatch
    /\ \E n \in 2..Len(eRow) : ~ActualHas(eRow[n].Key)
    /\ \E n \in 2..Len(eRow) : ActualHas(eRow[n].Key) /\ rowDiff.Fields[n].Status = Match
    /\ \E n \in 2..Len(aRow) : \A k \in 1..Len(eRow) : eRow[k].Key # aRow[n].Key
    /\ \E n \in 2..Len(eRow), k \in 2..Len(aRow) : k < n /\ eRow[n].Key = aRow[k].Key

\* the expected value is the placeholder [null], [notnull] or [any]
IsPlaceholder(v) ==
    \/ v.kind = "seqnil"
    \/ v.kind = "seq" /\ v.s \in {TokenNull, TokenNotNull, TokenAny}

\* C12: against any actual value a, an expected [null] (the token or the null
\* scalar) gives Match iff a is null, [notnull] gives Match iff a is not null,
\* [any] gives Match; a case that does not match gives a NotMatch diff and a
\* NotMatch row, and compareRow returns.
C12_Placeholders ==
    ( /\ rowDiff.Status # ""
      /\ \A n \in 2..Len(eRow) : IsSequence(eRow[n].Value) => IsPlaceholder(eRow[n].Value) )
    => /\ rowDiff.Status \in {Match, NotMatch}
       /\ \A n \in 2..Len(eRow) :
            (IsSequence(eRow[n].Value) /\ ActualHas(eRow[n].Key)) =>
                LET e == eRow[n].Value
                    a == ActualAt(eRow[n].Key)
                    d == rowDiff.Fields[n]
                IN /\ d.Status = IF \/ e.kind = "seqnil" /\ a = nil
                                    \/ e.kind = "seq" /\ e.s = TokenNull /\ a = nil
                                    \/ e.kind = "seq" /\ e.s = TokenNotNull /\ a # nil
                                    \/ e.kind = "seq" /\ e.s = TokenAny
                                 THEN Match ELSE NotMatch
                   /\ d.Status = NotMatch => rowDiff.Status = NotMatch

C12_PlaceholdersWitness ==
    /\ rowDiff.Status = NotMatch
    /\ \E n \in 2..Len(eRow) :
        /\ eRow[n].Value = SeqVal(TokenNotNull)
        /\ ActualHas(eRow[n].Key) /\ ActualAt(eRow[n].Key) = nil
    /\ \E n \in 2..Len(eRow) :
        /\ eRow[n].Value = SeqNil
        /\ ActualHas(eRow[n].Key) /\ ActualAt(eRow[n].Key) = nil
    /\ \E n \in 2..Len(eRow) :
        /\ eRow[n].Value = SeqVal(TokenAny)
        /\ ActualHas(eRow[n].Key) /\ ActualAt(eRow[n].Key) # nil

-----------------------------------------------------------------------------
(* Properties of filter.                                                   *)

\* C16: filter accepts a row with tags S iff no exclude tag is in S and every
\* include tag is in S: an exclude hit rejects even when all includes are
\* present, and an empty include list accepts every row that is not excluded.
C16_TagFilter ==
    accepted # "" =>
        (accepted = "true" <=>
            /\ \A e \in Range(excludeSet) : e \notin Range(rowTags)
            /\ \A i \in Range(includeSet) : i \in Range(rowTags))

C16_TagFilterWitness ==
    /\ accepted = "false"
    /\ Len(includeSet) = 2 /\ includeSet[1] # includeSet[2]
    /\ Range(includeSet) \cap Range(rowTags) # {}
    /\ Range(excludeSet) \cap Range(rowTags) = {}

-----------------------------------------------------------------------------
(* Properties of Table.SortAndFilter.                                      *)

\* the position of a column name in lexicographic order
NameIndex(c) == CHOOSE n \in 1..Len(AllColumns) : AllColumns[n] = c

\* integer key prefixes in numeric lexicographic order
RECURSIVE PrefixLeq(_, _, _, _)
PrefixLeq(r1, r2, i, k) ==
    IF i > k THEN TRUE
    ELSE IF r1[i].Value.i < r2[i].Value.i THEN TRUE
    ELSE IF r1[i].Value.i > r2[i].Value.i THEN FALSE
    ELSE PrefixLeq(r1, r2, i + 1, k)

\* C17: in a table returned by SortAndFilter every row starts with the primary
\* key columns in name order, continues with its other columns in name order,
\* and the rows are non-decreasing by primary-key prefix with integers in
\* numeric order, for every order of the input rows.
C17_NormalizationOrdering ==
    normalized.state = "ok" =>
        LET k == Len(primaryKeys)
            out == normalized.Rows
        IN /\ \A n \in 1..Len(out) :
                /\ Len(out[n]) >= k
                /\ \A i \in 1..k : out[n][i].Key \in Range(primaryKeys)
                /\ \A i \in (k + 1)..Len(out[n]) : out[n][i].Key \notin Range(primaryKeys)
                /\ \A i \in 1..(Len(out[n]) - 1) :
                    i # k => NameIndex(out[n][i].Key) < NameIndex(out[n][i + 1].Key)
           /\ \A n \in 1..(Len(out) - 1) : PrefixLeq(out[n], out[n + 1], 1, k)

\* the rows of the table that pass the tag filter
KeptRows ==
    SelectSeq([i \in 1..Len(rawTable.Rows) |-> i],
              LAMBDA i : filter(rawTable.Tags[i], tagFilter[1], tagFilter[2]))

Lacking(i) == Range(primaryKeys) \ DOMAIN rawTable.Rows[i]

\* C18: SortAndFilter returns an error and no table iff a row that passes the
\* tag filter lacks a primary-key column; the error lists, for every such row,
\* the columns it lacks; rows the filter rejects never cause the error.
C18_MissingPrimaryKey ==
    normalized.state # "" =>
        LET lacking == SelectSeq(KeptRows, LAMBDA i : Lacking(i) # {})
        IN /\ normalized.state = "error" <=> Len(lacking) > 0
           /\ normalized.state = "error" =>
                /\ normalized.Rows = <<>>
                /\ Len(normalized.missing) = Len(lacking)
                /\ \A n \in 1..Len(lacking) :
                    Range(normalized.missing[n]) = Lacking(lacking[n])
           /\ normalized.state = "ok" => Len(normalized.Rows) = Len(KeptRows)

C18_MissingPrimaryKeyWitness ==
    /\ normalized.state = "error"
    /\ Len(rawTable.Rows) = 2
    /\ Len(KeptRows) = 1
    /\ \A i \in 1..2 : Cardinality(Lacking(i)) = IF i = 1 THEN 1 ELSE 2
    /\ normalized.missing = <<<<"order_id", "product_id">>>>

-----------------------------------------------------------------------------
(* Properties of Assert.                                                   *)

\* C13: an expected one-element sequence whose token is none of null, notnull
\* and any is reported as an error of the assert: Assert returns, it never
\* ends the process, whether the token is a string or not.
C13_UnsupportedTokenIsError == apc # "panicked"

\* the names of the dataset tables Assert does not skip, in dataset order
InScopeNames ==
    SelectSeq([n \in 1..Len(assertIn.Tables) |-> assertIn.Tables[n].Name],
              LAMBDA x : InScope(assertIn, x))

\* a row of the table that passes the tag filter lacks a primary-key column
LacksKey(name) ==
    \E n \in 1..Len(assertIn.Tables) :
        /\ assertIn.Tables[n].Name = name
        /\ \E i \in 1..Len(assertIn.Tables[n].Rows) :
            /\ filter(assertIn.Tables[n].Tags[i], assertIn.IncludeTags, assertIn.ExcludeTags)
            /\ \E k \in Range(PrimaryKeys(name)) : k \notin DOMAIN assertIn.Tables[n].Rows[i]

\* C14: when no step errors Assert returns one result per in-scope table, in
\* dataset order, and true iff every result is Match; when the fetch or the
\* normalization of some table errors it returns false, no results and the
\* errors of every failing table, the other tables having been processed.
C14_AssertResult ==
    \A c \in 1..Len(returns) :
        LET r == returns[c]
            failing == SelectSeq(InScopeNames, LAMBDA x : x \in r.failed \/ LacksKey(x))
        IN IF failing = <<>>
           THEN /\ r.err = <<>>
                /\ [n \in 1..Len(r.results) |-> r.results[n].Name] = InScopeNames
                /\ r.ok <=> \A n \in 1..Len(r.results) : r.results[n].Status = Match
           ELSE /\ r.ok = FALSE
                /\ r.results = <<>>
                /\ [n \in 1..Len(r.err) |-> r.err[n].table] = failing

C14_AssertResultWitness ==
    /\ Len(returns) = 2
    /\ Len(returns[1].err) = 2
    /\ returns[1].err[1].step = "fetch" /\ returns[1].err[2].step = "normalize"
    /\ Len(returns[2].err) = 1 /\ returns[2].err[1].step = "normalize"
    /\ \A c \in 1..2 : ~returns[c].ok /\ returns[c].results = <<>>

\* C24: Assert handles the in-scope tables in dataset order: the returned
\* results are in that order, and diff_callback is invoked once for every
\* table that was compared, in that order, with the result that is appended
\* to the list Assert returns.
C24_AssertOrdering ==
    /\ assertRun.diffs = assertRun.results
    /\ \A c \in 1..Len(returns) :
        LET r == returns[c]
            compared == SelectSeq(InScopeNames, LAMBDA x : x \notin r.failed /\ ~LacksKey(x))
        IN /\ [n \in 1..Len(r.diffs) |-> r.diffs[n].Name] = compared
           /\ r.err = <<>> => r.results = r.diffs

C24_AssertOrderingWitness ==
    /\ Len(returns) = 2
    /\ returns[1].err = <<>>
    /\ Len(returns[1].results) = 2
    /\ returns[1].results[1].Status # returns[1].results[2].Status
    /\ Len(returns[2].err) = 1
    /\ Len(returns[2].diffs) = 1

\* C15: on one dataset, one set of options and one database content, two
\* successive Assert calls that meet no driver error return equal booleans and
\* equal results, whatever order the queries return the rows in.
C15_AssertDeterminism ==
    (Len(returns) = 2 /\ returns[1].failed = {} /\ returns[2].failed = {})
        => /\ returns[1].ok = returns[2].ok
           /\ returns[1].results = returns[2].results

-----------------------------------------------------------------------------
(* Properties of ParseYAML.                                                *)

\* C19: the tables of the DataSet returned by ParseYAML are in the order
\* their keys have in the document, on every parse of the document.
C19_TablesInDocumentOrder ==
    \A n \in 1..Len(parses) :
        parses[n] = SelectSeq(document, LAMBDA k : k \notin {"_operation", "_match"})

-----------------------------------------------------------------------------
(* Properties of NewDBConnector.                                           *)

\* C20: the handle of an adapter returned by NewDBConnector, for each of the
\* three dialects, is open as long as the context is not cancelled, and once
\* the context is cancelled the handle is eventually closed.
C20_HandleLifetime ==
    /\ [](conn.kind \in {"mysql", "sqlite", "postgres"} /\ ~conn.cancelled => conn.open)
    /\ \A k \in {"mysql", "sqlite", "postgres"} :
        (conn.kind = k /\ conn.cancelled) ~> ~conn.open

C20_HandleLifetimeWitness ==
    /\ conn.kind = "sqlite"
    /\ conn.queries > 0
    /\ conn.cancelled
    /\ ~conn.open
    /\ cpc = "exited"

-----------------------------------------------------------------------------
(* Properties of comparePkey.                                              *)

\* C26: for two primary-key values of one kind, comparePkey and the
\* comparison of sortRow return the sign of the kind's order (numeric for
\* integers, so 9 before 10 and -2 before -1), and both are antisymmetric:
\* compare(a, b) = -compare(b, a) for all a and b.
C26_PkeyComparator ==
    cmpOut # <<>> =>
        LET a == keyA[1].Value
            b == keyB[1].Value
        IN /\ (a.kind = "int" /\ b.kind = "int") =>
                (cmpOut[1] = CompareInt(a.i, b.i) /\ cmpOut[3] = CompareInt(a.i, b.i))
           /\ (a.kind = "string" /\ b.kind = "string") =>
                (cmpOut[1] = CompareString(a.s, b.s) /\ cmpOut[3] = CompareString(a.s, b.s))
           /\ cmpOut[1] = 0 - cmpOut[2]
           /\ cmpOut[3] = 0 - cmpOut[4]

-----------------------------------------------------------------------------
(* Properties of two Seeds with two batch sizes.                           *)

\* C29: two successful Seeds of one dataset from one database, with the same
\* options but two different positive batch sizes, leave the same database,
\* for every operation.
C29_BatchSizeIndependence ==
    (seedOut # <<>> /\ seedOut[1].ok /\ seedOut[2].ok) => seedOut[1].rows = seedOut[2].rows


====
